---- MODULE Spec2Model ----
(***************************************************************************)
(* Execution scheduler of the Arduino emulator web server                  *)
(* (src/src/WebServer.cpp): the execution thread running the user's        *)
(* setup()/loop(), the watchdog thread sampling the tick counter, and the  *)
(* control-plane handlers (start, stop, reset, status, debug log)          *)
(* served concurrently by the HTTP thread pool.  Every shared-memory       *)
(* access of the source is one step, so that all interleavings of the      *)
(* three kinds of threads are explored.                                    *)
(***************************************************************************)
EXTENDS Integers, Sequences, FiniteSets, TLC

\* ------------------------------------------------------------------------
\* Bounds of the model
\* ------------------------------------------------------------------------
\* number of execution/watchdog threads that start commands may create
MaxRuns == 2
\* the execution thread stays inside loop() once the tick counter is here
MaxTick == 2

\* ------------------------------------------------------------------------
\* Program constants
\* ------------------------------------------------------------------------
\* const int freeze_timeout_seconds = 5;
freeze_timeout_seconds == 5

\* identities of the threads created by start commands, in creation order
Runs == 1..MaxRuns
\* control-plane clients: each issues one command at a time and polls the
\* status and the debug log meanwhile
Clients == {"c1", "c2"}
\* the clients of Spec: one web page, whose commands follow one another
Browser == {"c1"}
\* the thread that owns the WebServer object and destroys it
Owner == "c2"
\* value of a std::thread handle that is not joinable
NoThread == 0
\* cxxopts: "f,frequency" default_value("100")
DefaultFrequency == 100
\* if (config.frequency < 1 || config.frequency > 100)
MinFrequency == 1
MaxFrequency == 100
\* std::chrono::microseconds(1000000 / m_config.frequency)
MicrosecondsPerSecond == 1000000

VARIABLES
    running,                \* ArduinoEmulator::running (isRunning/setRunning)
    m_watchdog_should_stop, \* WebServer::m_watchdog_should_stop
    m_tick_counter,         \* WebServer::m_tick_counter
    m_arduino_thread,       \* WebServer::m_arduino_thread: NoThread or id
    m_watchdog_thread,      \* WebServer::m_watchdog_thread: NoThread or id
    m_debug_log,            \* WebServer::m_debug_log: queue of messages
    timer_running,          \* TimerEmulator::m_running
    emu_state,              \* emulated object: "default" or "modified"
    crashed,                \* std::terminate was called
    nworkers,               \* execution threads created so far
    nwatchdogs,             \* watchdog threads created so far
    wpc,                    \* position of each execution thread
    wdpc,                   \* position of each watchdog thread
    last_tick,              \* watchdogThread local last_tick
    frozen_seconds,         \* watchdogThread local frozen_seconds
    cpc,                    \* position of each control-plane client
    cop,                    \* command a client is in
    cjoin,                  \* thread a client's join() is waiting for
    cwas,                   \* web client: wasRunning of resetSimulation()
    indicator,              \* web client: status indicator shows running
    \* ---- history variables (observations, never read by the program) ----
    setupCalls,             \* number of setup() calls of each execution thread
    setupReturns,           \* number of setup() returns of each execution thread
    logged,                 \* freeze messages enqueued by each watchdog
    delivered,              \* times each watchdog's message was delivered
    forcedStops,            \* watchdog setRunning(false) that found it true
    stopReturned,           \* a stop returned success, no start issued since
    wdForced,               \* the watchdog forced a stop, no start issued since
    resetFrom,              \* isRunning() when each client issued its reset
    cleared,                \* threads a stop command cleared the flag for
    \* ---- emulated hardware ----
    board,                  \* Config::board (BoardConfig)
    loaded,                 \* BoardConfig::load has run
    frequency,              \* Config::frequency
    loop_period,            \* runArduinoSimulation: loop_period, microseconds
    next_loop_time,         \* runArduinoSimulation: next_loop_time
    now,                    \* std::chrono::steady_clock, microseconds
    tpc,                    \* position of the program from main() to the loop
    starts,                 \* times at which loop() was called
    pins,                   \* ArduinoEmulator::pins
    m_output_buffer,        \* SerialEmulator::m_output_buffer
    m_enabled,              \* SerialEmulator::m_enabled
    spc,                    \* the sketch's position inside println(str)
    m_input_buffer,         \* SerialEmulator::m_input_buffer
    m_buffer_mutex,         \* SerialEmulator::m_buffer_mutex: its holder
    bpc,                    \* position of the thread that is inside begin()
    \* ---- history variables of the emulated hardware ----
    call,                   \* the last pin operation and what it returned
    nops,                   \* number of pin operations so far
    forced,                 \* pins the emulator side has set a value of
    ipc,                    \* position of each thread inside a digital write
    ipin,                   \* the pin each thread is writing
    callbacks,              \* interrupt callbacks that are running
    setpin,                 \* handleSetPin on each handler thread
    scall,                  \* the last serial operation and what it returned
    written,                \* a character was pushed since the last getOutput
    enqueued,               \* characters pushed since the last begin
    drained                 \* characters getOutput returned since the last begin

vars == << running, m_watchdog_should_stop, m_tick_counter, m_arduino_thread,
           m_watchdog_thread, m_debug_log, timer_running, emu_state, crashed,
           nworkers, nwatchdogs, wpc, wdpc, last_tick, frozen_seconds,
           cpc, cop, cjoin, cwas, indicator,
           setupCalls, setupReturns, logged, delivered, forcedStops,
           stopReturned, wdForced, resetFrom, cleared >>

sharedVars == << running, m_watchdog_should_stop, m_tick_counter,
                 m_arduino_thread, m_watchdog_thread, m_debug_log,
                 timer_running, emu_state, crashed >>
spawnVars == << nworkers, nwatchdogs >>
workerVars == << wpc, setupCalls, setupReturns >>
watchdogVars == << wdpc, last_tick, frozen_seconds >>
clientVars == << cpc, cop, cjoin, cwas, indicator >>
logHist == << logged, delivered >>
stopHist == << forcedStops, stopReturned, wdForced >>
resetHist == << resetFrom >>
cancelHist == << cleared >>
schedVars == << frequency, loop_period, next_loop_time, now, tpc, starts >>
boardVars == << board, loaded, schedVars >>
irqVars == << ipc, ipin, callbacks >>
toggleVars == << setpin >>
pinVars == << pins, call, nops, forced, irqVars, toggleVars >>
lockVars == << m_buffer_mutex, bpc >>
serialVars == << m_output_buffer, m_enabled, spc, scall, written, enqueued,
                drained, m_input_buffer, lockVars >>
ioVars == << boardVars, pinVars, serialVars >>

\* ------------------------------------------------------------------------
\* Emulated hardware: Arduino constants
\* ------------------------------------------------------------------------
\* constexpr int HIGH = 1;
HIGH == 1
\* constexpr int LOW = 0;
LOW == 0
\* constexpr int INPUT = 0;
INPUT == 0
\* constexpr int OUTPUT = 1;
OUTPUT == 1
\* constexpr int INPUT_PULLUP = 2;
INPUT_PULLUP == 2
\* constexpr int INPUT_PULLDOWN = 3;
INPUT_PULLDOWN == 3
\* constexpr int CHANGE = 1;
CHANGE == 1
\* constexpr int RISING = 2;
RISING == 2
\* constexpr int FALLING = 3;
FALLING == 3
\* initializePins: for (int i = 0; i < 20; i++)
RegistrySize == 20
\* analogRead: p_pin += 14; handleAnalogSet: actual_pin = pin + 14
AnalogOffset == 14
\* analogRead: if (p_pin >= 0 && p_pin <= 5)
LastLogicalAnalog == 5
\* Pin::analogWrite: value = (p_val > 127) ? HIGH : LOW
PwmThreshold == 127
\* setAnalogValue: value = (p_analog_value > 512) ? HIGH : LOW
AnalogThreshold == 512
\* BoardConfig::initialize without analog key: digital_pins = total_pins = 20
DefaultTotalPins == 20

\* ------------------------------------------------------------------------
\* BoardConfig (unnamed/part_001): board descriptions and derived values
\* ------------------------------------------------------------------------
\* the characters std::isdigit accepts
Digits == {"0", "1", "2", "3", "4", "5", "6", "7", "8", "9"}

\* a key of pin_mapping, as its sequence of characters
AnalogKey(d) == << "A", d >>
LedKey == << "L", "E", "D", "_", "B", "U", "I", "L", "T", "I", "N" >>
ArefKey == << "A", "R", "E", "F" >>

\* the key names analog input i
KeyOfAnalog(i) ==
    AnalogKey(<< "0", "1", "2", "3", "4", "5", "6", "7", "8", "9" >>[i + 1])

\* (!key.empty()) && (key[0] == 'A') && std::isdigit(key[1]); key[1] of a
\* one-character key is the terminating '\0'
IsAnalogKey(key) ==
    /\ Len(key) >= 1
    /\ key[1] = "A"
    /\ Len(key) >= 2
    /\ key[2] \in Digits

\* the values kept in the order they are pushed, not sorted
SortedInsertAtEnd(q, x) == Append(q, x)

\* std::sort(analog_input_pins.begin(), analog_input_pins.end())
RECURSIVE SortedInsert(_, _)
SortedInsert(q, x) ==
    IF q = << >> THEN << x >>
    ELSE IF x <= Head(q) THEN << x >> \o q
    ELSE << Head(q) >> \o SortedInsert(Tail(q), x)

\* the values of the analog keys of pin_mapping, pushed key after key and
\* then sorted
RECURSIVE AnalogValuesSorted(_, _)
AnalogValuesSorted(mapping, keys) ==
    IF keys = {} THEN << >>
    ELSE LET key == CHOOSE k \in keys : TRUE
             rest == AnalogValuesSorted(mapping, keys \ {key})
         IN  IF IsAnalogKey(key) THEN SortedInsert(rest, mapping[key])
             ELSE rest

\* BoardConfig::initialize (computeDerivedValues)
initialize(b) ==
    LET analog == AnalogValuesSorted(b.pin_mapping, DOMAIN b.pin_mapping)
    IN  [b EXCEPT
           !.analog_input_pins = analog,
           !.analog_pins = Len(analog),
           !.digital_pins = IF analog # << >> THEN analog[1]
                            ELSE DefaultTotalPins,
           !.total_pins = IF analog # << >> THEN analog[Len(analog)] + 1
                          ELSE DefaultTotalPins]

\* BoardConfig's member initialisers: the Arduino Uno description, derived
\* values not yet computed
DefaultBoard ==
    [name |-> "Arduino Uno",
     pwm_pins |-> {3, 5, 6, 9, 10, 11},
     pin_mapping |->
        (AnalogKey("0") :> 14) @@ (AnalogKey("1") :> 15) @@
        (AnalogKey("2") :> 16) @@ (AnalogKey("3") :> 17) @@
        (AnalogKey("4") :> 18) @@ (AnalogKey("5") :> 19) @@ (LedKey :> 13),
     analog_input_pins |-> << >>,
     analog_pins |-> 0,
     digital_pins |-> 0,
     total_pins |-> 0]

\* the board files load() is given: name, pwm_pins and pin_mapping of each
\* ("none" is the empty file name: the default description is kept)
BoardFiles ==
    [none |-> [name |-> DefaultBoard.name, pwm_pins |-> DefaultBoard.pwm_pins,
               pin_mapping |-> DefaultBoard.pin_mapping],
     nano |-> [name |-> "Arduino Nano", pwm_pins |-> {3, 5, 6, 9, 10, 11},
               pin_mapping |->
                  (AnalogKey("0") :> 14) @@ (AnalogKey("1") :> 15) @@
                  (AnalogKey("2") :> 16) @@ (AnalogKey("3") :> 17) @@
                  (AnalogKey("4") :> 18) @@ (AnalogKey("5") :> 19) @@
                  (AnalogKey("6") :> 20) @@ (AnalogKey("7") :> 21) @@
                  (LedKey :> 13)],
     reversed |-> [name |-> "Reversed", pwm_pins |-> {3, 13},
                   pin_mapping |->
                      (AnalogKey("0") :> 19) @@ (AnalogKey("1") :> 18) @@
                      (AnalogKey("2") :> 17) @@ (AnalogKey("3") :> 16) @@
                      (AnalogKey("4") :> 15) @@ (AnalogKey("5") :> 14) @@
                      (LedKey :> 13)],
     small |-> [name |-> "Small", pwm_pins |-> {3},
                pin_mapping |->
                   (AnalogKey("0") :> 10) @@ (AnalogKey("1") :> 11) @@
                   (AnalogKey("2") :> 12) @@ (AnalogKey("3") :> 13) @@
                   (LedKey :> 2)],
     gap |-> [name |-> "Gap", pwm_pins |-> {3},
              pin_mapping |->
                 (AnalogKey("1") :> 16) @@ (AnalogKey("0") :> 14) @@
                 (ArefKey :> 12) @@ (LedKey :> 13)],
     shared |-> [name |-> "Shared", pwm_pins |-> {3},
                 pin_mapping |->
                    (AnalogKey("0") :> 14) @@ (AnalogKey("1") :> 14) @@
                    (LedKey :> 13)],
     digital |-> [name |-> "Digital", pwm_pins |-> {3},
                  pin_mapping |-> (<< "A" >> :> 5) @@ (ArefKey :> 12) @@
                                  (LedKey :> 13)]]

\* ------------------------------------------------------------------------
\* Pin and the pin registry (ArduinoEmulator::pins)
\* ------------------------------------------------------------------------
\* Pin's member initialisers
DefaultPin ==
    [value |-> LOW, mode |-> INPUT, pwm_capable |-> FALSE, pwm_value |-> 0,
     analog_value |-> 0, configured |-> FALSE, interrupt_callback |-> FALSE,
     interrupt_mode |-> 0, last_value |-> LOW]

\* ArduinoEmulator::initializePins, called by the constructor
initializePins ==
    [i \in 0..(RegistrySize - 1) |->
        IF i \in {3, 5, 6, 9, 10, 11}
        THEN [DefaultPin EXCEPT !.pwm_capable = TRUE]
        ELSE DefaultPin]

\* pins.find(p_pin) != pins.end()
Exists(p) == p \in DOMAIN pins

\* toggle commands a handler thread answers
MaxToggles == 2
\* "pin" of the toggle commands: a digital pin and an analog pin
TogglePins == {13, 17}

\* the threads that write digital values: the execution thread through
\* digitalWrite, a handler thread of the server through forcePinValue
Writers == {"worker", "control"}

\* value of a mutex that no thread holds
NoHolder == "free"

\* a handler thread that is not inside handleSetPin; answered counts the
\* toggle commands it has answered, toggled counts them pin by pin
IdleHandler ==
    [pc |-> "idle", pin |-> 0, value |-> 0, answered |-> 0,
     toggled |-> [p \in TogglePins |-> 0]]

\* no pin operation, no serial operation yet
NoCall == [op |-> "none"]

\* the emulated hardware after construction of the global arduino_sim and of
\* Config
InitIo ==
    /\ board = DefaultBoard
    /\ loaded = FALSE
    /\ frequency = DefaultFrequency
    /\ loop_period = 0
    /\ next_loop_time = 0
    /\ now = 0
    /\ tpc = "options"
    /\ starts = << >>
    /\ pins = initializePins
    /\ m_output_buffer = << >>
    /\ m_enabled = FALSE
    /\ spc = "idle"
    /\ m_input_buffer = << >>
    /\ m_buffer_mutex = NoHolder
    /\ bpc = "idle"
    /\ call = NoCall
    /\ nops = 0
    /\ forced = {}
    /\ ipc = [t \in Writers |-> "idle"]
    /\ ipin = [t \in Writers |-> 0]
    /\ callbacks = {}
    /\ setpin = [h \in Clients |-> IdleHandler]
    /\ scall = NoCall
    /\ written = FALSE
    /\ enqueued = << >>
    /\ drained = << >>

\* ------------------------------------------------------------------------
\* State after construction of WebServer and the global arduino_sim
\* ------------------------------------------------------------------------
Init ==
    /\ running = FALSE
    /\ m_watchdog_should_stop = FALSE
    /\ m_tick_counter = 0
    /\ m_arduino_thread = NoThread
    /\ m_watchdog_thread = NoThread
    /\ m_debug_log = << >>
    /\ timer_running = FALSE
    /\ emu_state = "default"
    /\ crashed = FALSE
    /\ nworkers = 0
    /\ nwatchdogs = 0
    /\ wpc = [g \in Runs |-> "none"]
    /\ wdpc = [g \in Runs |-> "none"]
    /\ last_tick = [g \in Runs |-> 0]
    /\ frozen_seconds = [g \in Runs |-> 0]
    /\ cpc = [c \in Clients |-> "idle"]
    /\ cop = [c \in Clients |-> "none"]
    /\ cjoin = [c \in Clients |-> NoThread]
    /\ cwas = [c \in Clients |-> FALSE]
    /\ indicator = [c \in Clients |-> FALSE]
    /\ setupCalls = [g \in Runs |-> 0]
    /\ setupReturns = [g \in Runs |-> 0]
    /\ logged = [g \in Runs |-> 0]
    /\ delivered = [g \in Runs |-> 0]
    /\ forcedStops = 0
    /\ stopReturned = FALSE
    /\ wdForced = FALSE
    /\ resetFrom = [c \in Clients |-> FALSE]
    /\ cleared = {}
    /\ InitIo

\* ------------------------------------------------------------------------
\* Helpers
\* ------------------------------------------------------------------------
\* std::terminate has not been called and main() has not returned
ProcessAlive == ~crashed /\ cpc[Owner] # "gone"

\* a start is on its way: a start command in a handler, or a reset of a web
\* client that will re-issue start (resetSimulation with wasRunning)
StartPending(c) ==
    /\ cpc[c] # "idle"
    /\ \/ cop[c] = "start"
       \/ cop[c] = "reset" /\ cwas[c]

StartInFlight == \E c \in Clients : StartPending(c)

\* execution threads still to be created by the commands accepted so far
PendingSpawns ==
    Cardinality({c \in Clients : StartPending(c) /\ cpc[c] # "start_spawn_w"})

\* the execution thread g is between its creation and its exit
Alive(g) == wpc[g] \in {"start", "setup", "check", "loop", "stuck"}

\* a counter that advances by two
IncTickTwice(t) == t + 2

\* m_tick_counter++
IncTick(t) == t + 1

\* a count of frozen seconds that never advances
IncFrozenNever(f) == 0

\* frozen_seconds++
IncFrozen(f) == f + 1

\* a freeze declared one sample early
FreezeReachedEarly(f) == f >= freeze_timeout_seconds - 1

\* frozen_seconds >= freeze_timeout_seconds
FreezeReached(f) == f >= freeze_timeout_seconds

\* ------------------------------------------------------------------------
\* Execution thread: WebServer::runArduinoSimulation
\* ------------------------------------------------------------------------
\* an execution thread that enters its loop without calling setup()
runArduinoSimulation_noSetup(g) ==
    /\ ProcessAlive
    /\ wpc[g] = "start"
    /\ timer_running' = TRUE
    /\ wpc' = [wpc EXCEPT ![g] = "check"]
    /\ UNCHANGED << running, m_watchdog_should_stop, m_tick_counter,
                    m_arduino_thread, m_watchdog_thread, m_debug_log,
                    emu_state, crashed, setupCalls, setupReturns >>
    /\ UNCHANGED << spawnVars, watchdogVars, clientVars, logHist, stopHist,
                    resetHist >>
    /\ UNCHANGED ioVars
    /\ UNCHANGED cancelHist

\* arduino_sim.getTimer().start(); then setup() is entered
runArduinoSimulation_begin(g) ==
    /\ ProcessAlive
    /\ wpc[g] = "start"
    /\ timer_running' = TRUE
    /\ wpc' = [wpc EXCEPT ![g] = "setup"]
    /\ setupCalls' = [setupCalls EXCEPT ![g] = @ + 1]
    /\ UNCHANGED << running, m_watchdog_should_stop, m_tick_counter,
                    m_arduino_thread, m_watchdog_thread, m_debug_log,
                    emu_state, crashed, setupReturns >>
    /\ UNCHANGED << spawnVars, watchdogVars, clientVars, logHist, stopHist >>
    /\ UNCHANGED ioVars
    /\ UNCHANGED cancelHist
    /\ UNCHANGED resetHist

\* setup() returns; the user code has configured the emulated object
runArduinoSimulation_setupReturn(g) ==
    /\ ProcessAlive
    /\ wpc[g] = "setup"
    /\ wpc' = [wpc EXCEPT ![g] = "check"]
    /\ emu_state' = "modified"
    /\ setupReturns' = [setupReturns EXCEPT ![g] = @ + 1]
    /\ UNCHANGED << running, m_watchdog_should_stop, m_tick_counter,
                    m_arduino_thread, m_watchdog_thread, m_debug_log,
                    timer_running, crashed, setupCalls >>
    /\ UNCHANGED << spawnVars, watchdogVars, clientVars, logHist, stopHist >>
    /\ UNCHANGED ioVars
    /\ UNCHANGED cancelHist
    /\ UNCHANGED resetHist

\* while (arduino_sim.isRunning()) { loop(); ...: the call of loop() either
\* returns after a finite time ("loop") or never returns ("stuck")
runArduinoSimulation_check(g) ==
    /\ ProcessAlive
    /\ wpc[g] = "check"
    /\ IF running
       THEN \E kind \in {"loop", "stuck"} :
                wpc' = [wpc EXCEPT ![g] = kind]
       ELSE wpc' = [wpc EXCEPT ![g] = "done"]
    /\ UNCHANGED << sharedVars, setupCalls, setupReturns >>
    /\ UNCHANGED << spawnVars, watchdogVars, clientVars, logHist, stopHist >>
    /\ UNCHANGED ioVars
    /\ UNCHANGED cancelHist
    /\ UNCHANGED resetHist

\* loop() returns; m_tick_counter++; sleep until the next period
runArduinoSimulation_loopReturn(g) ==
    /\ ProcessAlive
    /\ wpc[g] = "loop"
    /\ m_tick_counter < MaxTick
    /\ m_tick_counter' = IncTick(m_tick_counter)
    /\ wpc' = [wpc EXCEPT ![g] = "check"]
    /\ UNCHANGED << running, m_watchdog_should_stop, m_arduino_thread,
                    m_watchdog_thread, m_debug_log, timer_running, emu_state,
                    crashed, setupCalls, setupReturns >>
    /\ UNCHANGED << spawnVars, watchdogVars, clientVars, logHist, stopHist >>
    /\ UNCHANGED ioVars
    /\ UNCHANGED cancelHist
    /\ UNCHANGED resetHist

\* ------------------------------------------------------------------------
\* Watchdog thread: WebServer::watchdogThread
\* ------------------------------------------------------------------------
\* uint64_t last_tick = m_tick_counter.load(); int frozen_seconds = 0;
watchdogThread_init(g) ==
    /\ ProcessAlive
    /\ wdpc[g] = "init"
    /\ last_tick' = [last_tick EXCEPT ![g] = m_tick_counter]
    /\ frozen_seconds' = [frozen_seconds EXCEPT ![g] = 0]
    /\ wdpc' = [wdpc EXCEPT ![g] = "cond"]
    /\ UNCHANGED << sharedVars, spawnVars, workerVars, clientVars, logHist,
                    stopHist >>
    /\ UNCHANGED ioVars
    /\ UNCHANGED cancelHist
    /\ UNCHANGED resetHist

\* while (!m_watchdog_should_stop && arduino_sim.isRunning())
watchdogThread_cond(g) ==
    /\ ProcessAlive
    /\ wdpc[g] = "cond"
    /\ IF ~m_watchdog_should_stop /\ running
       THEN /\ wdpc' = [wdpc EXCEPT ![g] = "sleep"]
            /\ UNCHANGED << last_tick, frozen_seconds >>
       ELSE /\ wdpc' = [wdpc EXCEPT ![g] = "done"]
            /\ last_tick' = [last_tick EXCEPT ![g] = 0]
            /\ frozen_seconds' = [frozen_seconds EXCEPT ![g] = 0]
    /\ UNCHANGED << sharedVars, spawnVars, workerVars, clientVars, logHist,
                    stopHist >>
    /\ UNCHANGED ioVars
    /\ UNCHANGED cancelHist
    /\ UNCHANGED resetHist

\* std::this_thread::sleep_for(std::chrono::seconds(1)) lasts longer than the
\* statements the other threads execute between two blocking points: the
\* second is over only when every execution thread is inside setup() or
\* loop() or has returned, every handler is idle or blocked in a join(), and
\* every other watchdog sleeps as well (the loop period is at most one second)
SecondElapses ==
    /\ \A w \in Runs : wpc[w] \in {"none", "setup", "loop", "stuck", "done"}
    /\ \A w \in Runs : wdpc[w] \in {"none", "sleep", "done"}
    /\ \A c \in Clients :
          \/ cpc[c] = "idle"
          \/ cpc[c] \in {"start_joining_a", "sas_joining_a"}
                /\ wpc[cjoin[c]] # "done"
          \/ cpc[c] \in {"start_joining_w", "sas_joining_w"}
                /\ wdpc[cjoin[c]] # "done"

\* sleep_for(1s) is over; current_tick = m_tick_counter.load(); compare
watchdogThread_sample(g) ==
    /\ ProcessAlive
    /\ wdpc[g] = "sleep"
    /\ SecondElapses
    /\ IF m_tick_counter = last_tick[g]
       THEN /\ frozen_seconds' =
                  [frozen_seconds EXCEPT ![g] = IncFrozen(@)]
            /\ wdpc' = [wdpc EXCEPT ![g] =
                  IF FreezeReached(IncFrozen(frozen_seconds[g]))
                  THEN "log" ELSE "cond"]
            /\ UNCHANGED last_tick
       ELSE /\ frozen_seconds' = [frozen_seconds EXCEPT ![g] = 0]
            /\ last_tick' = [last_tick EXCEPT ![g] = m_tick_counter]
            /\ wdpc' = [wdpc EXCEPT ![g] = "cond"]
    /\ UNCHANGED << sharedVars, spawnVars, workerVars, clientVars, logHist,
                    stopHist >>
    /\ UNCHANGED ioVars
    /\ UNCHANGED cancelHist
    /\ UNCHANGED resetHist

\* addDebugLog("[ERROR] Infinite loop detected ...")
watchdogThread_log(g) ==
    /\ ProcessAlive
    /\ wdpc[g] = "log"
    /\ m_debug_log' = Append(m_debug_log, g)
    /\ logged' = [logged EXCEPT ![g] = @ + 1]
    /\ wdpc' = [wdpc EXCEPT ![g] = "setrun"]
    /\ UNCHANGED << running, m_watchdog_should_stop, m_tick_counter,
                    m_arduino_thread, m_watchdog_thread, timer_running,
                    emu_state, crashed, delivered >>
    /\ UNCHANGED << spawnVars, workerVars, last_tick, frozen_seconds,
                    clientVars, stopHist >>
    /\ UNCHANGED ioVars
    /\ UNCHANGED cancelHist
    /\ UNCHANGED resetHist

\* arduino_sim.setRunning(false);
watchdogThread_setRunning(g) ==
    /\ ProcessAlive
    /\ wdpc[g] = "setrun"
    /\ running' = FALSE
    /\ forcedStops' = IF running THEN forcedStops + 1 ELSE forcedStops
    /\ wdForced' = ~StartInFlight
    /\ wdpc' = [wdpc EXCEPT ![g] = "setstop"]
    /\ UNCHANGED << m_watchdog_should_stop, m_tick_counter, m_arduino_thread,
                    m_watchdog_thread, m_debug_log, timer_running, emu_state,
                    crashed, stopReturned >>
    /\ UNCHANGED << spawnVars, workerVars, last_tick, frozen_seconds,
                    clientVars, logHist >>
    /\ UNCHANGED ioVars
    /\ UNCHANGED cancelHist
    /\ UNCHANGED resetHist

\* m_watchdog_should_stop = true;
watchdogThread_setStop(g) ==
    /\ ProcessAlive
    /\ wdpc[g] = "setstop"
    /\ m_watchdog_should_stop' = TRUE
    /\ wdpc' = [wdpc EXCEPT ![g] = "chkjoin"]
    /\ UNCHANGED << running, m_tick_counter, m_arduino_thread,
                    m_watchdog_thread, m_debug_log, timer_running, emu_state,
                    crashed >>
    /\ UNCHANGED << spawnVars, workerVars, last_tick, frozen_seconds,
                    clientVars, logHist, stopHist >>
    /\ UNCHANGED ioVars
    /\ UNCHANGED cancelHist
    /\ UNCHANGED resetHist

\* if (m_arduino_thread.joinable())
watchdogThread_joinable(g) ==
    /\ ProcessAlive
    /\ wdpc[g] = "chkjoin"
    /\ IF m_arduino_thread # NoThread
       THEN /\ wdpc' = [wdpc EXCEPT ![g] = "detach"]
            /\ UNCHANGED << last_tick, frozen_seconds >>
       ELSE /\ wdpc' = [wdpc EXCEPT ![g] = "done"]
            /\ last_tick' = [last_tick EXCEPT ![g] = 0]
            /\ frozen_seconds' = [frozen_seconds EXCEPT ![g] = 0]
    /\ UNCHANGED << sharedVars, spawnVars, workerVars, clientVars, logHist,
                    stopHist >>
    /\ UNCHANGED ioVars
    /\ UNCHANGED cancelHist
    /\ UNCHANGED resetHist

\* a client is blocked in join() on the thread the handle names
BeingJoined(t) ==
    \E c \in Clients :
        /\ cpc[c] \in {"start_joining_a", "sas_joining_a"}
        /\ cjoin[c] = t

\* m_arduino_thread.detach(); return;  detach() of a handle that is no longer
\* joinable throws std::system_error out of the thread function
\* (std::terminate); detach() of a thread another thread is joining is
\* undefined: it terminates the process or lets the join go on waiting
watchdogThread_detach(g) ==
    /\ ProcessAlive
    /\ wdpc[g] = "detach"
    /\ \/ /\ m_arduino_thread # NoThread
          /\ m_arduino_thread' = NoThread
          /\ UNCHANGED crashed
       \/ /\ m_arduino_thread = NoThread \/ BeingJoined(m_arduino_thread)
          /\ crashed' = TRUE
          /\ UNCHANGED m_arduino_thread
    /\ wdpc' = [wdpc EXCEPT ![g] = "done"]
    /\ last_tick' = [last_tick EXCEPT ![g] = 0]
    /\ frozen_seconds' = [frozen_seconds EXCEPT ![g] = 0]
    /\ UNCHANGED << running, m_watchdog_should_stop, m_tick_counter,
                    m_watchdog_thread, m_debug_log, timer_running,
                    emu_state >>
    /\ UNCHANGED << spawnVars, workerVars, clientVars, logHist, stopHist >>
    /\ UNCHANGED ioVars
    /\ UNCHANGED cancelHist
    /\ UNCHANGED resetHist

\* ------------------------------------------------------------------------
\* Control plane: the commands a client issues
\* ------------------------------------------------------------------------
\* startSimulation(): POST /api/start
cmdStart(c) ==
    /\ ProcessAlive
    /\ cpc[c] = "idle"
    /\ nworkers + PendingSpawns < MaxRuns
    /\ cop' = [cop EXCEPT ![c] = "start"]
    /\ cpc' = [cpc EXCEPT ![c] = "start_chk"]
    /\ stopReturned' = FALSE
    /\ wdForced' = FALSE
    /\ UNCHANGED << sharedVars, spawnVars, workerVars, watchdogVars, cjoin,
                    cwas, indicator, logHist, forcedStops >>
    /\ UNCHANGED ioVars
    /\ UNCHANGED cancelHist
    /\ UNCHANGED resetHist

\* stopSimulation(): POST /api/stop
cmdStop(c) ==
    /\ ProcessAlive
    /\ cpc[c] = "idle"
    /\ cop' = [cop EXCEPT ![c] = "stop"]
    /\ cpc' = [cpc EXCEPT ![c] = "stop_chk"]
    /\ UNCHANGED << sharedVars, spawnVars, workerVars, watchdogVars, cjoin,
                    cwas, indicator, logHist, stopHist >>
    /\ UNCHANGED ioVars
    /\ UNCHANGED cancelHist
    /\ UNCHANGED resetHist

\* resetSimulation(): wasRunning = indicator is 'running'; POST /api/reset.
\* handleResetSimulation begins with the call of stopArduinoSimulation()
cmdReset(c) ==
    /\ ProcessAlive
    /\ cpc[c] = "idle"
    /\ indicator[c] => nworkers + PendingSpawns < MaxRuns
    /\ cop' = [cop EXCEPT ![c] = "reset"]
    /\ cwas' = [cwas EXCEPT ![c] = indicator[c]]
    /\ resetFrom' = [resetFrom EXCEPT ![c] = running]
    /\ cpc' = [cpc EXCEPT ![c] = "sas_chk"]
    /\ UNCHANGED << sharedVars, spawnVars, workerVars, watchdogVars, cjoin,
                    indicator, logHist, stopHist >>
    /\ UNCHANGED ioVars
    /\ UNCHANGED cancelHist

\* refreshStatus(): GET /api/status, handleGetStatus reports isRunning()
handleGetStatus(c) ==
    /\ ProcessAlive
    /\ indicator[c] # running
    /\ indicator' = [indicator EXCEPT ![c] = running]
    /\ UNCHANGED << sharedVars, spawnVars, workerVars, watchdogVars, cpc, cop,
                    cjoin, cwas, logHist, stopHist >>
    /\ UNCHANGED ioVars
    /\ UNCHANGED cancelHist
    /\ UNCHANGED resetHist

\* number of messages of watchdog g in the queue q
RECURSIVE CountIn(_, _)
CountIn(q, g) ==
    IF q = << >> THEN 0
    ELSE (IF Head(q) = g THEN 1 ELSE 0) + CountIn(Tail(q), g)

\* handleGetDebugLog: under m_debug_log_mutex, pop every message
handleGetDebugLog(c) ==
    /\ ProcessAlive
    /\ m_debug_log # << >>
    /\ m_debug_log' = << >>
    /\ delivered' = [g \in Runs |-> delivered[g] + CountIn(m_debug_log, g)]
    /\ UNCHANGED << running, m_watchdog_should_stop, m_tick_counter,
                    m_arduino_thread, m_watchdog_thread, timer_running,
                    emu_state, crashed, logged >>
    /\ UNCHANGED << spawnVars, workerVars, watchdogVars, clientVars,
                    stopHist >>
    /\ UNCHANGED ioVars
    /\ UNCHANGED cancelHist
    /\ UNCHANGED resetHist

\* ------------------------------------------------------------------------
\* WebServer::handleStartSimulation
\* ------------------------------------------------------------------------
\* if (arduino_sim.isRunning()) { "Simulation is already running"; return; }
handleStartSimulation_check(c) ==
    /\ ProcessAlive
    /\ cpc[c] = "start_chk"
    /\ IF running
       THEN /\ cpc' = [cpc EXCEPT ![c] = "idle"]
            /\ cop' = [cop EXCEPT ![c] = "none"]
            /\ cwas' = [cwas EXCEPT ![c] = FALSE]
            /\ resetFrom' = [resetFrom EXCEPT ![c] = FALSE]
       ELSE /\ cpc' = [cpc EXCEPT ![c] = "start_ja"]
            /\ UNCHANGED << cop, cwas, resetFrom >>
    /\ UNCHANGED << sharedVars, spawnVars, workerVars, watchdogVars, cjoin,
                    indicator, logHist, stopHist >>
    /\ UNCHANGED ioVars
    /\ UNCHANGED cancelHist

\* if (m_arduino_thread.joinable()) m_arduino_thread.join();   -- entry
handleStartSimulation_joinArduino(c) ==
    /\ ProcessAlive
    /\ cpc[c] = "start_ja"
    /\ IF m_arduino_thread # NoThread
       THEN /\ cjoin' = [cjoin EXCEPT ![c] = m_arduino_thread]
            /\ cpc' = [cpc EXCEPT ![c] = "start_joining_a"]
       ELSE /\ cpc' = [cpc EXCEPT ![c] = "start_jw"]
            /\ UNCHANGED cjoin
    /\ UNCHANGED << sharedVars, spawnVars, workerVars, watchdogVars, cop,
                    cwas, indicator, logHist, stopHist >>
    /\ UNCHANGED ioVars
    /\ UNCHANGED cancelHist
    /\ UNCHANGED resetHist

\* if (m_watchdog_thread.joinable()) m_watchdog_thread.join();  -- entry
handleStartSimulation_joinWatchdog(c) ==
    /\ ProcessAlive
    /\ cpc[c] = "start_jw"
    /\ IF m_watchdog_thread # NoThread
       THEN /\ cjoin' = [cjoin EXCEPT ![c] = m_watchdog_thread]
            /\ cpc' = [cpc EXCEPT ![c] = "start_joining_w"]
       ELSE /\ cpc' = [cpc EXCEPT ![c] = "start_set"]
            /\ UNCHANGED cjoin
    /\ UNCHANGED << sharedVars, spawnVars, workerVars, watchdogVars, cop,
                    cwas, indicator, logHist, stopHist >>
    /\ UNCHANGED ioVars
    /\ UNCHANGED cancelHist
    /\ UNCHANGED resetHist

\* position after a join() of the execution thread has returned
AfterJoinArduino(pc) ==
    IF pc = "start_joining_a" THEN "start_jw" ELSE "sas_timer"

\* position after a join() of the watchdog thread has returned
AfterJoinWatchdog(pc) ==
    IF pc = "start_joining_w" THEN "start_set" ELSE "sas_ja"

\* m_arduino_thread.join() returns: the thread function has returned; the
\* handle is not joinable afterwards
joinArduinoReturn(c) ==
    /\ ProcessAlive
    /\ cpc[c] \in {"start_joining_a", "sas_joining_a"}
    /\ wpc[cjoin[c]] = "done"
    /\ m_arduino_thread' = NoThread
    /\ cjoin' = [cjoin EXCEPT ![c] = NoThread]
    /\ cpc' = [cpc EXCEPT ![c] = AfterJoinArduino(cpc[c])]
    /\ UNCHANGED << running, m_watchdog_should_stop, m_tick_counter,
                    m_watchdog_thread, m_debug_log, timer_running, emu_state,
                    crashed >>
    /\ UNCHANGED << spawnVars, workerVars, watchdogVars, cop, cwas, indicator,
                    logHist, stopHist >>
    /\ UNCHANGED ioVars
    /\ UNCHANGED cancelHist
    /\ UNCHANGED resetHist

\* m_watchdog_thread.join() returns
joinWatchdogReturn(c) ==
    /\ ProcessAlive
    /\ cpc[c] \in {"start_joining_w", "sas_joining_w"}
    /\ wdpc[cjoin[c]] = "done"
    /\ m_watchdog_thread' = NoThread
    /\ cjoin' = [cjoin EXCEPT ![c] = NoThread]
    /\ cpc' = [cpc EXCEPT ![c] = AfterJoinWatchdog(cpc[c])]
    /\ UNCHANGED << running, m_watchdog_should_stop, m_tick_counter,
                    m_arduino_thread, m_debug_log, timer_running, emu_state,
                    crashed >>
    /\ UNCHANGED << spawnVars, workerVars, watchdogVars, cop, cwas, indicator,
                    logHist, stopHist >>
    /\ UNCHANGED ioVars
    /\ UNCHANGED cancelHist
    /\ UNCHANGED resetHist

\* arduino_sim.setRunning(true);
handleStartSimulation_setRunning(c) ==
    /\ ProcessAlive
    /\ cpc[c] = "start_set"
    /\ running' = TRUE
    /\ cpc' = [cpc EXCEPT ![c] = "start_ws"]
    /\ UNCHANGED << m_watchdog_should_stop, m_tick_counter, m_arduino_thread,
                    m_watchdog_thread, m_debug_log, timer_running, emu_state,
                    crashed >>
    /\ UNCHANGED << spawnVars, workerVars, watchdogVars, cop, cjoin, cwas,
                    indicator, logHist, stopHist >>
    /\ UNCHANGED ioVars
    /\ UNCHANGED cancelHist
    /\ UNCHANGED resetHist

\* m_watchdog_should_stop = false;
handleStartSimulation_clearStop(c) ==
    /\ ProcessAlive
    /\ cpc[c] = "start_ws"
    /\ m_watchdog_should_stop' = FALSE
    /\ cpc' = [cpc EXCEPT ![c] = "start_tick"]
    /\ UNCHANGED << running, m_tick_counter, m_arduino_thread,
                    m_watchdog_thread, m_debug_log, timer_running, emu_state,
                    crashed >>
    /\ UNCHANGED << spawnVars, workerVars, watchdogVars, cop, cjoin, cwas,
                    indicator, logHist, stopHist >>
    /\ UNCHANGED ioVars
    /\ UNCHANGED cancelHist
    /\ UNCHANGED resetHist

\* m_tick_counter = 0;
handleStartSimulation_resetTick(c) ==
    /\ ProcessAlive
    /\ cpc[c] = "start_tick"
    /\ m_tick_counter' = 0
    /\ cpc' = [cpc EXCEPT ![c] = "start_spawn_a"]
    /\ UNCHANGED << running, m_watchdog_should_stop, m_arduino_thread,
                    m_watchdog_thread, m_debug_log, timer_running, emu_state,
                    crashed >>
    /\ UNCHANGED << spawnVars, workerVars, watchdogVars, cop, cjoin, cwas,
                    indicator, logHist, stopHist >>
    /\ UNCHANGED ioVars
    /\ UNCHANGED cancelHist
    /\ UNCHANGED resetHist

\* m_arduino_thread = std::thread([this]() { runArduinoSimulation(); });
\* move-assignment to a joinable std::thread calls std::terminate
handleStartSimulation_spawnArduino(c) ==
    /\ ProcessAlive
    /\ cpc[c] = "start_spawn_a"
    /\ IF m_arduino_thread # NoThread
       THEN /\ crashed' = TRUE
            /\ UNCHANGED << m_arduino_thread, nworkers, wpc, cpc >>
       ELSE /\ nworkers < MaxRuns
            /\ nworkers' = nworkers + 1
            /\ wpc' = [wpc EXCEPT ![nworkers + 1] = "start"]
            /\ m_arduino_thread' = nworkers + 1
            /\ cpc' = [cpc EXCEPT ![c] = "start_spawn_w"]
            /\ UNCHANGED crashed
    /\ UNCHANGED << running, m_watchdog_should_stop, m_tick_counter,
                    m_watchdog_thread, m_debug_log, timer_running, emu_state >>
    /\ UNCHANGED << nwatchdogs, setupCalls, setupReturns, watchdogVars, cop, cjoin,
                    cwas, indicator, logHist, stopHist >>
    /\ UNCHANGED ioVars
    /\ UNCHANGED cancelHist
    /\ UNCHANGED resetHist

\* m_watchdog_thread = std::thread([this]() { watchdogThread(); });
\* "Simulation started"; the web client shows the running indicator
handleStartSimulation_spawnWatchdog(c) ==
    /\ ProcessAlive
    /\ cpc[c] = "start_spawn_w"
    /\ IF m_watchdog_thread # NoThread
       THEN /\ crashed' = TRUE
            /\ UNCHANGED << m_watchdog_thread, nwatchdogs, wdpc, cpc, cop,
                            cwas, indicator, resetFrom >>
       ELSE /\ nwatchdogs < MaxRuns
            /\ nwatchdogs' = nwatchdogs + 1
            /\ wdpc' = [wdpc EXCEPT ![nwatchdogs + 1] = "init"]
            /\ m_watchdog_thread' = nwatchdogs + 1
            /\ cpc' = [cpc EXCEPT ![c] = "idle"]
            /\ cop' = [cop EXCEPT ![c] = "none"]
            /\ cwas' = [cwas EXCEPT ![c] = FALSE]
            /\ resetFrom' = [resetFrom EXCEPT ![c] = FALSE]
            /\ indicator' = [indicator EXCEPT ![c] = TRUE]
            /\ UNCHANGED crashed
    /\ UNCHANGED << running, m_watchdog_should_stop, m_tick_counter,
                    m_arduino_thread, m_debug_log, timer_running, emu_state >>
    /\ UNCHANGED << nworkers, workerVars, last_tick, frozen_seconds, cjoin,
                    logHist, stopHist >>
    /\ UNCHANGED ioVars
    /\ UNCHANGED cancelHist

\* ------------------------------------------------------------------------
\* WebServer::handleStopSimulation
\* ------------------------------------------------------------------------
\* if (!arduino_sim.isRunning()) { "Simulation is not running" }
\* else stopArduinoSimulation() is called
handleStopSimulation_check(c) ==
    /\ ProcessAlive
    /\ cpc[c] = "stop_chk"
    /\ IF ~running
       THEN /\ cpc' = [cpc EXCEPT ![c] = "idle"]
            /\ cop' = [cop EXCEPT ![c] = "none"]
       ELSE /\ cpc' = [cpc EXCEPT ![c] = "sas_chk"]
            /\ UNCHANGED cop
    /\ UNCHANGED << sharedVars, spawnVars, workerVars, watchdogVars, cjoin,
                    cwas, indicator, logHist, stopHist >>
    /\ UNCHANGED ioVars
    /\ UNCHANGED cancelHist
    /\ UNCHANGED resetHist

\* "Simulation stopped": stopArduinoSimulation() has returned, the handler
\* answers success and the web client shows the stopped indicator
handleStopSimulation_success(c) ==
    /\ ProcessAlive
    /\ cpc[c] = "stop_resp"
    /\ cpc' = [cpc EXCEPT ![c] = "idle"]
    /\ cop' = [cop EXCEPT ![c] = "none"]
    /\ indicator' = [indicator EXCEPT ![c] = FALSE]
    /\ stopReturned' = ~StartInFlight
    /\ UNCHANGED << sharedVars, spawnVars, workerVars, watchdogVars, cjoin,
                    cwas, logHist, forcedStops, wdForced >>
    /\ UNCHANGED ioVars
    /\ UNCHANGED cancelHist
    /\ UNCHANGED resetHist

\* ------------------------------------------------------------------------
\* WebServer::stopArduinoSimulation, called by stop, by reset and by
\* WebServer::stop()
\* ------------------------------------------------------------------------
\* where the caller of stopArduinoSimulation() continues
AfterStop(op) ==
    IF op = "stop" THEN "stop_resp"
    ELSE IF op = "destroy" THEN "members" ELSE "reset_do"

\* if (!arduino_sim.isRunning()) return;
stopArduinoSimulation_check(c) ==
    /\ ProcessAlive
    /\ cpc[c] = "sas_chk"
    /\ cpc' = [cpc EXCEPT ![c] =
          IF ~running THEN AfterStop(cop[c]) ELSE "sas_setrun"]
    /\ UNCHANGED << sharedVars, spawnVars, workerVars, watchdogVars, cop,
                    cjoin, cwas, indicator, logHist, stopHist >>
    /\ UNCHANGED ioVars
    /\ UNCHANGED cancelHist
    /\ UNCHANGED resetHist

\* arduino_sim.setRunning(false);
setRunningFalse(c) ==
    /\ ProcessAlive
    /\ cpc[c] = "sas_setrun"
    /\ running' = FALSE
    /\ cpc' = [cpc EXCEPT ![c] = "sas_setstop"]
    /\ UNCHANGED << m_watchdog_should_stop, m_tick_counter, m_arduino_thread,
                    m_watchdog_thread, m_debug_log, timer_running, emu_state,
                    crashed >>
    /\ UNCHANGED << spawnVars, workerVars, watchdogVars, cop, cjoin, cwas,
                    indicator, logHist, stopHist >>
    /\ UNCHANGED ioVars
    /\ UNCHANGED resetHist

\* arduino_sim.setRunning(false); inside stopArduinoSimulation()
stopArduinoSimulation_setRunning(c) ==
    /\ setRunningFalse(c)
    /\ UNCHANGED cancelHist

\* the same statement, with the history of the threads that were alive when
\* a stop command executed it
stopArduinoSimulation_setRunning_observed(c) ==
    /\ setRunningFalse(c)
    /\ cleared' = IF cop[c] = "stop"
                  THEN cleared \cup {g \in Runs : Alive(g)}
                  ELSE cleared

\* m_watchdog_should_stop = true;
stopArduinoSimulation_setStop(c) ==
    /\ ProcessAlive
    /\ cpc[c] = "sas_setstop"
    /\ m_watchdog_should_stop' = TRUE
    /\ cpc' = [cpc EXCEPT ![c] = "sas_jw"]
    /\ UNCHANGED << running, m_tick_counter, m_arduino_thread,
                    m_watchdog_thread, m_debug_log, timer_running, emu_state,
                    crashed >>
    /\ UNCHANGED << spawnVars, workerVars, watchdogVars, cop, cjoin, cwas,
                    indicator, logHist, stopHist >>
    /\ UNCHANGED ioVars
    /\ UNCHANGED cancelHist
    /\ UNCHANGED resetHist

\* if (m_watchdog_thread.joinable()) m_watchdog_thread.join();  -- entry
stopArduinoSimulation_joinWatchdog(c) ==
    /\ ProcessAlive
    /\ cpc[c] = "sas_jw"
    /\ IF m_watchdog_thread # NoThread
       THEN /\ cjoin' = [cjoin EXCEPT ![c] = m_watchdog_thread]
            /\ cpc' = [cpc EXCEPT ![c] = "sas_joining_w"]
       ELSE /\ cpc' = [cpc EXCEPT ![c] = "sas_ja"]
            /\ UNCHANGED cjoin
    /\ UNCHANGED << sharedVars, spawnVars, workerVars, watchdogVars, cop,
                    cwas, indicator, logHist, stopHist >>
    /\ UNCHANGED ioVars
    /\ UNCHANGED cancelHist
    /\ UNCHANGED resetHist

\* if (m_arduino_thread.joinable()) m_arduino_thread.join();   -- entry
stopArduinoSimulation_joinArduino(c) ==
    /\ ProcessAlive
    /\ cpc[c] = "sas_ja"
    /\ IF m_arduino_thread # NoThread
       THEN /\ cjoin' = [cjoin EXCEPT ![c] = m_arduino_thread]
            /\ cpc' = [cpc EXCEPT ![c] = "sas_joining_a"]
       ELSE /\ cpc' = [cpc EXCEPT ![c] = "sas_timer"]
            /\ UNCHANGED cjoin
    /\ UNCHANGED << sharedVars, spawnVars, workerVars, watchdogVars, cop,
                    cwas, indicator, logHist, stopHist >>
    /\ UNCHANGED ioVars
    /\ UNCHANGED cancelHist
    /\ UNCHANGED resetHist

\* arduino_sim.getTimer().stop(); and return to the caller
stopArduinoSimulation_stopTimer(c) ==
    /\ ProcessAlive
    /\ cpc[c] = "sas_timer"
    /\ timer_running' = FALSE
    /\ cpc' = [cpc EXCEPT ![c] = AfterStop(cop[c])]
    /\ UNCHANGED << running, m_watchdog_should_stop, m_tick_counter,
                    m_arduino_thread, m_watchdog_thread, m_debug_log,
                    emu_state, crashed >>
    /\ UNCHANGED << spawnVars, workerVars, watchdogVars, cop, cjoin, cwas,
                    indicator, logHist, stopHist >>
    /\ UNCHANGED ioVars
    /\ UNCHANGED cancelHist
    /\ UNCHANGED resetHist

\* ------------------------------------------------------------------------
\* WebServer::handleResetSimulation and the web client's resetSimulation()
\* ------------------------------------------------------------------------
\* arduino_sim.reset(): the emulated object is back to its defaults
handleResetSimulation_reset(c) ==
    /\ ProcessAlive
    /\ cpc[c] = "reset_do"
    /\ emu_state' = "default"
    /\ cpc' = [cpc EXCEPT ![c] = "reset_resp"]
    /\ UNCHANGED << running, m_watchdog_should_stop, m_tick_counter,
                    m_arduino_thread, m_watchdog_thread, m_debug_log,
                    timer_running, crashed >>
    /\ UNCHANGED << spawnVars, workerVars, watchdogVars, cop, cjoin, cwas,
                    indicator, logHist, stopHist >>
    /\ UNCHANGED ioVars
    /\ UNCHANGED cancelHist
    /\ UNCHANGED resetHist

\* "Simulation reset" is answered; the web client then restarts the
\* simulation if (wasRunning) startSimulation(), else shows the stopped
\* indicator
resetSimulation_response(c) ==
    /\ ProcessAlive
    /\ cpc[c] = "reset_resp"
    /\ IF cwas[c]
       THEN /\ cop' = [cop EXCEPT ![c] = "start"]
            /\ cpc' = [cpc EXCEPT ![c] = "start_chk"]
            /\ stopReturned' = FALSE
            /\ wdForced' = FALSE
            /\ UNCHANGED << indicator, cwas, resetFrom >>
       ELSE /\ cop' = [cop EXCEPT ![c] = "none"]
            /\ cpc' = [cpc EXCEPT ![c] = "idle"]
            /\ indicator' = [indicator EXCEPT ![c] = FALSE]
            /\ resetFrom' = [resetFrom EXCEPT ![c] = FALSE]
            /\ UNCHANGED << stopReturned, wdForced, cwas >>
    /\ UNCHANGED << sharedVars, spawnVars, workerVars, watchdogVars, cjoin,
                    logHist, forcedStops >>
    /\ UNCHANGED ioVars
    /\ UNCHANGED cancelHist

\* ------------------------------------------------------------------------
\* The threads and the specification
\* ------------------------------------------------------------------------
ExecutionThread(g) ==
    \/ runArduinoSimulation_begin(g)
    \/ runArduinoSimulation_setupReturn(g)
    \/ runArduinoSimulation_check(g)
    \/ runArduinoSimulation_loopReturn(g)

WatchdogThread(g) ==
    \/ watchdogThread_init(g)
    \/ watchdogThread_cond(g)
    \/ watchdogThread_sample(g)
    \/ watchdogThread_log(g)
    \/ watchdogThread_setRunning(g)
    \/ watchdogThread_setStop(g)
    \/ watchdogThread_joinable(g)
    \/ watchdogThread_detach(g)

\* a client sends a request
Request(c) ==
    \/ cmdStart(c)
    \/ cmdStop(c)
    \/ cmdReset(c)
    \/ handleGetStatus(c)
    \/ handleGetDebugLog(c)

\* a handler thread of the server makes a step of a command
Handler(c) ==
    \/ handleStartSimulation_check(c)
    \/ handleStartSimulation_joinArduino(c)
    \/ handleStartSimulation_joinWatchdog(c)
    \/ joinArduinoReturn(c)
    \/ joinWatchdogReturn(c)
    \/ handleStartSimulation_setRunning(c)
    \/ handleStartSimulation_clearStop(c)
    \/ handleStartSimulation_resetTick(c)
    \/ handleStartSimulation_spawnArduino(c)
    \/ handleStartSimulation_spawnWatchdog(c)
    \/ handleStopSimulation_check(c)
    \/ handleStopSimulation_success(c)
    \/ stopArduinoSimulation_check(c)
    \/ stopArduinoSimulation_setRunning(c)
    \/ stopArduinoSimulation_setStop(c)
    \/ stopArduinoSimulation_joinWatchdog(c)
    \/ stopArduinoSimulation_joinArduino(c)
    \/ stopArduinoSimulation_stopTimer(c)
    \/ handleResetSimulation_reset(c)
    \/ resetSimulation_response(c)

Next ==
    \/ \E g \in Runs : ExecutionThread(g)
    \/ \E g \in Runs : WatchdogThread(g)
    \/ \E c \in Browser : Request(c)
    \/ \E c \in Browser : Handler(c)

Spec == Init /\ [][Next]_vars

\* fairness the scheduling guarantees: every thread that can make a step
\* eventually makes one (a call of setup() or of a loop() that returns does
\* return; a loop() that never returns has no step).  The watchdog's
\* sleep_for(1s) is over after a second however many requests arrive in
\* between, hence the strong fairness of its thread.  Nothing obliges a
\* client to send a request.
Fairness ==
    /\ \A g \in Runs : WF_vars(ExecutionThread(g))
    /\ \A g \in Runs : SF_vars(WatchdogThread(g))
    /\ \A c \in Browser : WF_vars(Handler(c))

LiveSpec == Init /\ [][Next]_vars /\ Fairness

\* ------------------------------------------------------------------------
\* The threads with two clients whose start commands the HTTP
\* thread pool serves concurrently
\* ------------------------------------------------------------------------
\* a handler thread makes a step of a start command
StartHandler(c) ==
    \/ handleStartSimulation_check(c)
    \/ handleStartSimulation_joinArduino(c)
    \/ handleStartSimulation_joinWatchdog(c)
    \/ joinArduinoReturn(c)
    \/ joinWatchdogReturn(c)
    \/ handleStartSimulation_setRunning(c)
    \/ handleStartSimulation_clearStop(c)
    \/ handleStartSimulation_resetTick(c)
    \/ handleStartSimulation_spawnArduino(c)
    \/ handleStartSimulation_spawnWatchdog(c)

ConcurrentNext ==
    \/ \E g \in Runs : ExecutionThread(g)
    \/ \E g \in Runs : WatchdogThread(g)
    \/ \E c \in Clients : cmdStart(c)
    \/ \E c \in Clients : StartHandler(c)

ConcurrentSpec == Init /\ [][ConcurrentNext]_vars

\* ------------------------------------------------------------------------
\* WebServer::~WebServer and WebServer::stop
\* ------------------------------------------------------------------------
\* ~WebServer() { stop(); }   stop(): if (!m_server_running) return;
\* stopArduinoSimulation(); ...  The server thread and its handle are not
\* modelled: m_server_running is an input of the call
WebServer_stop(c) ==
    /\ ProcessAlive
    /\ c = Owner
    /\ cpc[c] = "idle"
    /\ cop' = [cop EXCEPT ![c] = "destroy"]
    /\ \E m_server_running \in BOOLEAN :
          cpc' = [cpc EXCEPT ![c] =
                     IF m_server_running THEN "sas_chk" ELSE "members"]
    /\ UNCHANGED << sharedVars, spawnVars, workerVars, watchdogVars, cjoin,
                    cwas, indicator, logHist, stopHist >>
    /\ UNCHANGED ioVars
    /\ UNCHANGED cancelHist
    /\ UNCHANGED resetHist

\* the members m_arduino_thread and m_watchdog_thread are destroyed:
\* ~thread() of a joinable std::thread calls std::terminate
WebServer_destroyMembers(c) ==
    /\ ProcessAlive
    /\ cpc[c] = "members"
    /\ IF m_arduino_thread # NoThread \/ m_watchdog_thread # NoThread
       THEN /\ crashed' = TRUE
            /\ UNCHANGED cpc
       ELSE /\ cpc' = [cpc EXCEPT ![c] = "gone"]
            /\ UNCHANGED crashed
    /\ UNCHANGED << running, m_watchdog_should_stop, m_tick_counter,
                    m_arduino_thread, m_watchdog_thread, m_debug_log,
                    timer_running, emu_state >>
    /\ UNCHANGED << spawnVars, workerVars, watchdogVars, cop, cjoin, cwas,
                    indicator, logHist, stopHist >>
    /\ UNCHANGED ioVars
    /\ UNCHANGED cancelHist
    /\ UNCHANGED resetHist

\* ------------------------------------------------------------------------
\* The threads from the creation of the server to its destruction: one
\* client that starts and stops the simulation, and the owner of the
\* server object that destroys it
\* ------------------------------------------------------------------------
\* a handler thread, or the owner inside stop(), makes a step
LifecycleHandler(c) ==
    \/ StartHandler(c)
    \/ handleStopSimulation_check(c)
    \/ handleStopSimulation_success(c)
    \/ stopArduinoSimulation_check(c)
    \/ stopArduinoSimulation_setRunning_observed(c)
    \/ stopArduinoSimulation_setStop(c)
    \/ stopArduinoSimulation_joinWatchdog(c)
    \/ stopArduinoSimulation_joinArduino(c)
    \/ stopArduinoSimulation_stopTimer(c)
    \/ WebServer_destroyMembers(c)

LifecycleNext ==
    \/ \E g \in Runs : ExecutionThread(g)
    \/ \E g \in Runs : WatchdogThread(g)
    \/ \E c \in Browser : cmdStart(c)
    \/ \E c \in Browser : cmdStop(c)
    \/ \E c \in Clients : WebServer_stop(c)
    \/ \E c \in Clients : LifecycleHandler(c)

LifecycleSpec == Init /\ [][LifecycleNext]_vars

\* ------------------------------------------------------------------------
\* Emulated hardware: bounds and inputs of the pin operations
\* ------------------------------------------------------------------------
\* number of pin operations in a behaviour
MaxOps == 2

\* pin indices the operations are called with: a PWM-capable pin that is
\* also a logical analog index, a pin that is not PWM-capable, an analog
\* pin, an index outside the registry
TestPins == {3, 13, 17, 20}
Modes == {INPUT, OUTPUT, INPUT_PULLUP, INPUT_PULLDOWN}
WriteValues == {LOW, HIGH, 2}
PwmValues == {0, 127, 128}
AnalogValues == {0, 512, 513, 1023}
InterruptModes == {CHANGE, RISING, FALLING}
\* "value" of POST /api/pin/set: -1 asks for a toggle
SetPinValues == {-1, 0, 1}
\* "pin" of POST /api/analog/set: a logical analog index
LogicalPins == {-1, 3, 6}

\* ------------------------------------------------------------------------
\* class Pin
\* ------------------------------------------------------------------------
\* an analogWrite whose digital value is HIGH from the threshold on
Pin_analogWriteFromThreshold(pin, p_val) ==
    IF pin.pwm_capable
    THEN [pin EXCEPT
             !.mode = OUTPUT,
             !.configured = IF pin.mode # OUTPUT THEN TRUE ELSE @,
             !.pwm_value = p_val,
             !.value = IF p_val >= PwmThreshold THEN HIGH ELSE LOW]
    ELSE pin

\* an analogWrite that stores the value and leaves the mode alone
Pin_analogWriteKeepsMode(pin, p_val) ==
    IF pin.pwm_capable
    THEN [pin EXCEPT !.pwm_value = p_val,
                     !.value = IF p_val > PwmThreshold THEN HIGH ELSE LOW]
    ELSE pin

\* Pin::analogWrite
Pin_analogWrite(pin, p_val) ==
    IF pin.pwm_capable
    THEN [pin EXCEPT
             !.mode = OUTPUT,
             !.configured = IF pin.mode # OUTPUT THEN TRUE ELSE @,
             !.pwm_value = p_val,
             !.value = IF p_val > PwmThreshold THEN HIGH ELSE LOW]
    ELSE pin

\* a digitalWrite that stores the value whatever the mode
Pin_digitalWriteAnyMode(pin, p_val) == [pin EXCEPT !.value = p_val]

\* Pin::digitalWrite
Pin_digitalWrite(pin, p_val) ==
    IF pin.mode = OUTPUT THEN [pin EXCEPT !.value = p_val] ELSE pin

\* ------------------------------------------------------------------------
\* class ArduinoEmulator: pin operations on a registry ps
\* ------------------------------------------------------------------------
\* ArduinoEmulator::checkInterrupt: whether the callback is invoked
Triggers(pin) ==
    /\ pin.interrupt_callback
    /\ \/ pin.interrupt_mode = CHANGE /\ pin.value # pin.last_value
       \/ pin.interrupt_mode = RISING
             /\ pin.last_value = LOW /\ pin.value = HIGH
       \/ pin.interrupt_mode = FALLING
             /\ pin.last_value = HIGH /\ pin.value = LOW

\* ArduinoEmulator::checkInterrupt: the registry it leaves
checkInterrupt(ps, p_pin) ==
    IF p_pin \in DOMAIN ps /\ ps[p_pin].interrupt_callback
    THEN [ps EXCEPT ![p_pin].last_value = ps[p_pin].value]
    ELSE ps

\* ArduinoEmulator::pinMode
pinMode(ps, p_pin, p_mode) ==
    IF p_pin \in DOMAIN ps
    THEN [ps EXCEPT ![p_pin].mode = p_mode,
                    ![p_pin].configured = TRUE,
                    ![p_pin].value = IF p_mode = INPUT_PULLUP THEN HIGH
                                     ELSE IF p_mode = INPUT_PULLDOWN THEN LOW
                                     ELSE @]
    ELSE ps

\* ArduinoEmulator::digitalWrite, before checkInterrupt
digitalWrite(ps, p_pin, p_value) ==
    IF p_pin \in DOMAIN ps
    THEN [ps EXCEPT ![p_pin] = Pin_digitalWrite(@, p_value)]
    ELSE ps

\* ArduinoEmulator::digitalRead
digitalRead(ps, p_pin) ==
    IF p_pin \in DOMAIN ps THEN ps[p_pin].value ELSE LOW

\* an analogWrite that creates the entry of a pin that does not exist
analogWriteAnyPin(ps, p_pin, p_value) ==
    [i \in DOMAIN ps \cup {p_pin} |->
        IF i = p_pin
        THEN Pin_analogWrite(IF i \in DOMAIN ps THEN ps[i] ELSE DefaultPin,
                             p_value)
        ELSE ps[i]]

\* ArduinoEmulator::analogWrite
analogWrite(ps, p_pin, p_value) ==
    IF p_pin \in DOMAIN ps
    THEN [ps EXCEPT ![p_pin] = Pin_analogWrite(@, p_value)]
    ELSE ps

\* ArduinoEmulator::analogRead: the pin index that is read
analogReadPin(p_pin) ==
    IF p_pin >= 0 /\ p_pin <= LastLogicalAnalog THEN p_pin + AnalogOffset
    ELSE p_pin

\* ArduinoEmulator::analogRead: the value returned
analogRead(ps, p_pin) ==
    IF analogReadPin(p_pin) \in DOMAIN ps
    THEN ps[analogReadPin(p_pin)].analog_value
    ELSE 0

\* ArduinoEmulator::analogRead: the registry it leaves
analogReadEffect(ps, p_pin) ==
    IF analogReadPin(p_pin) \in DOMAIN ps
    THEN [ps EXCEPT ![analogReadPin(p_pin)].configured = TRUE]
    ELSE ps

\* ArduinoEmulator::getPin: nullptr is FALSE
getPin(ps, p_pin) == p_pin \in DOMAIN ps

\* a forcePinValue that leaves an OUTPUT pin to the sketch
forcePinValueUnlessOutput(ps, p_pin, p_value) ==
    IF p_pin \in DOMAIN ps /\ ps[p_pin].mode # OUTPUT
    THEN [ps EXCEPT ![p_pin].value = IF p_value # 0 THEN 1 ELSE 0]
    ELSE ps

\* ArduinoEmulator::forcePinValue, before checkInterrupt; !!p_value
forcePinValue(ps, p_pin, p_value) ==
    IF p_pin \in DOMAIN ps
    THEN [ps EXCEPT ![p_pin].value = IF p_value # 0 THEN 1 ELSE 0]
    ELSE ps

\* a setAnalogValue that sets the digital value only
setAnalogValueDigitalOnly(ps, p_pin, p_analog_value) ==
    IF p_pin \in DOMAIN ps
    THEN [ps EXCEPT ![p_pin].value = IF p_analog_value > AnalogThreshold
                                     THEN HIGH ELSE LOW]
    ELSE ps

\* ArduinoEmulator::setAnalogValue
setAnalogValue(ps, p_pin, p_analog_value) ==
    IF p_pin \in DOMAIN ps
    THEN [ps EXCEPT ![p_pin].analog_value = p_analog_value,
                    ![p_pin].value = IF p_analog_value > AnalogThreshold
                                     THEN HIGH ELSE LOW]
    ELSE ps

\* ArduinoEmulator::attachInterrupt
attachInterrupt(ps, p_pin, p_mode) ==
    IF p_pin \in DOMAIN ps
    THEN [ps EXCEPT ![p_pin].interrupt_callback = TRUE,
                    ![p_pin].interrupt_mode = p_mode,
                    ![p_pin].last_value = ps[p_pin].value]
    ELSE ps

\* ArduinoEmulator::detachInterrupt
detachInterrupt(ps, p_pin) ==
    IF p_pin \in DOMAIN ps
    THEN [ps EXCEPT ![p_pin].interrupt_callback = FALSE,
                    ![p_pin].interrupt_mode = 0]
    ELSE ps

\* ------------------------------------------------------------------------
\* BoardConfig::load and the pin operations as steps
\* ------------------------------------------------------------------------
\* BoardConfig::load(p_board_file): name, pwm_pins and pin_mapping of the
\* file replace the defaults, then initialize() computes the derived values
load(f) ==
    /\ ~loaded
    /\ board' = initialize([DefaultBoard EXCEPT
                               !.name = BoardFiles[f].name,
                               !.pwm_pins = BoardFiles[f].pwm_pins,
                               !.pin_mapping = BoardFiles[f].pin_mapping])
    /\ loaded' = TRUE
    /\ UNCHANGED << vars, schedVars, pinVars, serialVars >>

\* the operation, pin and argument of the call c
LastRequest(c) ==
    IF c.op = "none" THEN NoCall
    ELSE [op |-> c.op, pin |-> c.pin, arg |-> c.arg]

\* the pin whose value the operation op(p, ..) of the emulator side sets:
\* forcePinValue and setAnalogValue, called directly or by a command
ForcedPins(op, p) ==
    IF op \in {"forcePinValue", "setAnalogValue", "handleSetPin"} THEN {p}
    ELSE IF op = "handleAnalogSet" THEN {p + AnalogOffset}
    ELSE {}

\* one pin operation op(p, arg) that leaves the registry ps and returns ret;
\* fired: an interrupt callback was invoked; before: the registry it found;
\* prev: the operation made before it
PinOpUpTo(n, op, p, arg, ps, ret, fired) ==
    /\ nops < n
    /\ pins' = ps
    /\ forced' = forced \cup ForcedPins(op, p)
    /\ UNCHANGED irqVars
    /\ UNCHANGED toggleVars
    /\ call' = [op |-> op, pin |-> p, arg |-> arg, ret |-> ret,
                fired |-> fired, before |-> pins, prev |-> LastRequest(call)]
    /\ nops' = nops + 1
    /\ UNCHANGED << vars, boardVars, serialVars >>

\* one pin operation of a behaviour of at most MaxOps operations
PinOp(op, p, arg, ps, ret, fired) ==
    PinOpUpTo(MaxOps, op, p, arg, ps, ret, fired)

\* whether checkInterrupt(p) invokes the callback on the registry ps
Fires(ps, p) == p \in DOMAIN ps /\ Triggers(ps[p])

\* the sketch calls pinMode(p, mode)
Sketch_pinMode(p, mode) ==
    /\ loaded
    /\ PinOp("pinMode", p, mode, pinMode(pins, p, mode), 0, FALSE)

\* the sketch calls digitalWrite(p, v)
Sketch_digitalWrite(p, v) ==
    /\ loaded
    /\ LET w == digitalWrite(pins, p, v)
       IN  PinOp("digitalWrite", p, v, checkInterrupt(w, p), 0, Fires(w, p))

\* the sketch calls digitalRead(p)
Sketch_digitalRead(p) ==
    /\ loaded
    /\ PinOp("digitalRead", p, 0, pins, digitalRead(pins, p), FALSE)

\* the sketch calls analogWrite(p, v)
Sketch_analogWrite(p, v) ==
    /\ loaded
    /\ PinOp("analogWrite", p, v, analogWrite(pins, p, v), 0, FALSE)

\* the sketch calls analogRead(p)
Sketch_analogRead(p) ==
    /\ loaded
    /\ PinOp("analogRead", p, 0, analogReadEffect(pins, p),
             analogRead(pins, p), FALSE)

\* the sketch calls attachInterrupt(p, function, mode)
Sketch_attachInterrupt(p, mode) ==
    /\ loaded
    /\ PinOp("attachInterrupt", p, mode, attachInterrupt(pins, p, mode), 0,
             FALSE)

\* the sketch calls detachInterrupt(p)
Sketch_detachInterrupt(p) ==
    /\ loaded
    /\ PinOp("detachInterrupt", p, 0, detachInterrupt(pins, p), 0, FALSE)

\* arduino_sim.forcePinValue(p, v)
Emulator_forcePinValue(p, v) ==
    /\ loaded
    /\ LET w == forcePinValue(pins, p, v)
       IN  PinOp("forcePinValue", p, v, checkInterrupt(w, p), 0, Fires(w, p))

\* arduino_sim.setAnalogValue(p, v)
Emulator_setAnalogValue(p, v) ==
    /\ loaded
    /\ PinOp("setAnalogValue", p, v, setAnalogValue(pins, p, v), 0, FALSE)

\* ------------------------------------------------------------------------
\* WebServer: the pin commands of the control plane
\* ------------------------------------------------------------------------
\* WebServer::handleGetPins: the "pins" object of the response
GetPins(ps, b) ==
    [i \in {j \in 0..(b.total_pins - 1) : getPin(ps, j)} |->
        [value |-> ps[i].value, mode |-> ps[i].mode,
         pwm_capable |-> ps[i].pwm_capable, pwm_value |-> ps[i].pwm_value,
         configured |-> ps[i].configured]]

\* GET /api/pins
handleGetPins ==
    /\ loaded
    /\ PinOp("handleGetPins", 0, 0, pins, GetPins(pins, board), FALSE)

\* POST /api/pin/set {pin, value}
handleSetPin(pin, value) ==
    /\ loaded
    /\ IF value = -1
       THEN IF getPin(pins, pin)
            THEN LET v == IF pins[pin].value = HIGH THEN LOW ELSE HIGH
                     w == forcePinValue(pins, pin, v)
                 IN  PinOp("handleSetPin", pin, value, checkInterrupt(w, pin),
                           "success", Fires(w, pin))
            ELSE PinOp("handleSetPin", pin, value, pins, "error", FALSE)
       ELSE LET w == forcePinValue(pins, pin, value)
            IN  PinOp("handleSetPin", pin, value, checkInterrupt(w, pin),
                      "success", Fires(w, pin))

\* a test that accepts every pin of the registry
PWMSetAllowedAnyPin(ps, pin) == getPin(ps, pin)

\* handlePWMSet: if (p && p->pwm_capable)
PWMSetAllowed(ps, pin) == getPin(ps, pin) /\ ps[pin].pwm_capable

\* POST /api/pwm/set {pin, value}
handlePWMSet(pin, value) ==
    /\ loaded
    /\ IF PWMSetAllowed(pins, pin)
       THEN PinOp("handlePWMSet", pin, value,
                  [pins EXCEPT ![pin].pwm_value = value], "success", FALSE)
       ELSE PinOp("handlePWMSet", pin, value, pins, "error", FALSE)

\* POST /api/analog/set {pin, value}: pin is a logical analog index
handleAnalogSet(pin, value) ==
    /\ loaded
    /\ LET actual_pin == pin + AnalogOffset
       IN  IF actual_pin >= AnalogOffset
              /\ actual_pin <= AnalogOffset + LastLogicalAnalog
           THEN PinOp("handleAnalogSet", pin, value,
                      setAnalogValue(pins, actual_pin, value), "success", FALSE)
           ELSE PinOp("handleAnalogSet", pin, value, pins, "error", FALSE)

\* ------------------------------------------------------------------------
\* The pin operations on the default board
\* ------------------------------------------------------------------------
SketchPinCall ==
    \/ \E p \in TestPins, m \in Modes : Sketch_pinMode(p, m)
    \/ \E p \in TestPins, v \in WriteValues : Sketch_digitalWrite(p, v)
    \/ \E p \in TestPins : Sketch_digitalRead(p)
    \/ \E p \in TestPins, v \in PwmValues : Sketch_analogWrite(p, v)
    \/ \E p \in TestPins : Sketch_analogRead(p)
    \/ \E p \in TestPins, m \in InterruptModes : Sketch_attachInterrupt(p, m)
    \/ \E p \in TestPins : Sketch_detachInterrupt(p)

EmulatorPinCall ==
    \/ \E p \in TestPins, v \in WriteValues : Emulator_forcePinValue(p, v)
    \/ \E p \in TestPins, v \in AnalogValues : Emulator_setAnalogValue(p, v)

PinCommand ==
    \/ handleGetPins
    \/ \E p \in TestPins, v \in SetPinValues : handleSetPin(p, v)
    \/ \E p \in TestPins, v \in PwmValues : handlePWMSet(p, v)
    \/ \E p \in LogicalPins, v \in AnalogValues : handleAnalogSet(p, v)

PinNext ==
    \/ load("none")
    \/ SketchPinCall
    \/ EmulatorPinCall
    \/ PinCommand

allVars == << vars, ioVars >>

PinSpec == Init /\ [][PinNext]_allVars

\* ------------------------------------------------------------------------
\* The digital writes statement by statement, on the thread that makes them
\* ------------------------------------------------------------------------
\* a callback that is handed to the execution thread
InvokedOnWorker(t) == "worker"

\* checkInterrupt: pin.interrupt_callback() is a plain call, made by the
\* thread t that runs checkInterrupt
InvokedOn(t) == t

\* the thread t has stored a value in pin p and goes on to checkInterrupt(p)
WriteStep(t, p, ps) ==
    /\ loaded
    /\ ipc[t] = "idle"
    /\ IF p \in DOMAIN pins
       THEN /\ pins' = ps
            /\ ipc' = [ipc EXCEPT ![t] = "check"]
            /\ ipin' = [ipin EXCEPT ![t] = p]
       ELSE UNCHANGED << pins, ipc, ipin >>
    /\ UNCHANGED << vars, boardVars, serialVars, call, nops, callbacks >>
    /\ UNCHANGED toggleVars

\* the sketch's digitalWrite(p, v): pins[p_pin].digitalWrite(p_value);
digitalWrite_write(p, v) ==
    /\ WriteStep("worker", p, digitalWrite(pins, p, v))
    /\ UNCHANGED forced

\* handleSetPin's forcePinValue(p, v): pins[p_pin].value = !!p_value;
forcePinValue_write(p, v) ==
    /\ WriteStep("control", p, forcePinValue(pins, p, v))
    /\ forced' = forced \cup {p}

\* checkInterrupt(p_pin) on the thread t: last_value is updated and, if the
\* edge matches, the callback is called
checkInterrupt_call(t) ==
    /\ ipc[t] = "check"
    /\ pins' = checkInterrupt(pins, ipin[t])
    /\ IF Fires(pins, ipin[t])
       THEN /\ callbacks' = callbacks \cup
                   {[by |-> InvokedOn(t), from |-> t, pin |-> ipin[t]]}
            /\ ipc' = [ipc EXCEPT ![t] = "callback"]
       ELSE /\ ipc' = [ipc EXCEPT ![t] = "idle"]
            /\ UNCHANGED callbacks
    /\ UNCHANGED << vars, boardVars, serialVars, call, nops, forced, ipin >>
    /\ UNCHANGED toggleVars

\* the callback returns, then checkInterrupt and the write return
checkInterrupt_return(t) ==
    /\ ipc[t] = "callback"
    /\ callbacks' = {cb \in callbacks : cb.from # t}
    /\ ipc' = [ipc EXCEPT ![t] = "idle"]
    /\ UNCHANGED << vars, boardVars, serialVars, pins, call, nops, forced,
                    ipin >>
    /\ UNCHANGED toggleVars

\* the pins written: one of the registry, one outside it
IrqPins == {13, 20}
\* the modes the sketch gives them
IrqModes == {OUTPUT, INPUT_PULLUP}

InterruptNext ==
    \/ load("none")
    \/ \E p \in IrqPins, m \in IrqModes : Sketch_pinMode(p, m)
    \/ \E p \in IrqPins, m \in InterruptModes : Sketch_attachInterrupt(p, m)
    \/ \E p \in IrqPins, v \in {LOW, HIGH} : digitalWrite_write(p, v)
    \/ \E p \in IrqPins, v \in {LOW, HIGH} : forcePinValue_write(p, v)
    \/ \E t \in Writers : checkInterrupt_call(t)
    \/ \E t \in Writers : checkInterrupt_return(t)

InterruptSpec == Init /\ [][InterruptNext]_allVars

\* ------------------------------------------------------------------------
\* The analog inputs and the pin commands on every board description
\* ------------------------------------------------------------------------
BoardFileNames == DOMAIN BoardFiles

BoardNext ==
    \/ \E f \in BoardFileNames : load(f)
    \/ \E p \in TestPins : Sketch_analogRead(p)
    \/ \E p \in TestPins, v \in AnalogValues : Emulator_setAnalogValue(p, v)
    \/ handleGetPins
    \/ \E p \in TestPins, v \in SetPinValues : handleSetPin(p, v)
    \/ \E p \in LogicalPins, v \in AnalogValues : handleAnalogSet(p, v)

BoardSpec == Init /\ [][BoardNext]_allVars

\* ------------------------------------------------------------------------
\* class SerialEmulator: the output queue
\* ------------------------------------------------------------------------
\* longest output queue explored
MaxOut == 3
\* number of characters the sketch pushes between two calls of begin
MaxSent == 4
\* length of the input queue
MaxIn == 2

\* the strings and the byte the sketch prints
PrintStrings == {<< >>, << "a" >>, << "a", "b" >>}
WriteBytes == {"c"}
Newline == "\n"

\* a getOutput that copies the queue and leaves it as it is
getOutput_leftKeepsQueue(buf) == buf

\* a getOutput that pops the first character without returning it
getOutput_resultLosesFirst(buf) == IF buf = << >> THEN buf ELSE Tail(buf)

\* SerialEmulator::getOutput: the string returned, the queue it leaves
getOutput_result(buf) == buf
getOutput_left(buf) == << >>

\* one operation on Serial, inside its std::lock_guard, that pushes the
\* characters str and leaves the queue buf; ret is what it returns
SerialOp(op, arg, str, buf, ret) ==
    /\ m_buffer_mutex = NoHolder
    /\ UNCHANGED lockVars
    /\ Len(buf) <= MaxOut
    /\ op # "begin" => Len(enqueued) + Len(str) <= MaxSent
    /\ enqueued' = IF op = "begin" THEN << >> ELSE enqueued \o str
    /\ drained' = IF op = "begin" THEN << >>
                  ELSE IF op = "getOutput" THEN drained \o ret
                  ELSE drained
    /\ m_output_buffer' = buf
    /\ scall' = [op |-> op, arg |-> arg, ret |-> ret, pushed |-> str,
                 before |-> m_output_buffer, written |-> written,
                 prev |-> scall.op,
                 prevPushed |-> IF scall.op = "none" THEN << >>
                                ELSE scall.pushed]
    /\ written' = IF op = "getOutput" THEN FALSE
                  ELSE (written \/ str # << >>)

\* SerialEmulator::print: the characters pushed
print(p_str) == IF m_enabled THEN p_str ELSE << >>

\* Serial.begin(baud): enables Serial and empties both queues
Serial_begin ==
    /\ spc = "idle"
    /\ m_enabled' = TRUE
    /\ m_input_buffer' = << >>
    /\ SerialOp("begin", << >>, << >>, << >>, << >>)
    /\ UNCHANGED << vars, boardVars, pinVars, spc >>

\* Serial.print(str)
Serial_print(p_str) ==
    /\ spc = "idle"
    /\ SerialOp("print", p_str, print(p_str),
                m_output_buffer \o print(p_str), << >>)
    /\ UNCHANGED << vars, boardVars, pinVars, m_enabled, spc, m_input_buffer >>

\* Serial.println(str), first critical section: print(p_str)
Serial_println(p_str) ==
    /\ spc = "idle"
    /\ spc' = "newline"
    /\ SerialOp("println", p_str, print(p_str),
                m_output_buffer \o print(p_str), << >>)
    /\ UNCHANGED << vars, boardVars, pinVars, m_enabled, m_input_buffer >>

\* Serial.println(str), second critical section: the newline is pushed
\* without a test of m_enabled
Serial_println_newline ==
    /\ spc = "newline"
    /\ spc' = "idle"
    /\ SerialOp("println_newline", << >>, << Newline >>,
                Append(m_output_buffer, Newline), << >>)
    /\ UNCHANGED << vars, boardVars, pinVars, m_enabled, m_input_buffer >>

\* Serial.write(byte)
Serial_write(p_byte) ==
    /\ spc = "idle"
    /\ SerialOp("write", << p_byte >>, print(<< p_byte >>),
                m_output_buffer \o print(<< p_byte >>), << >>)
    /\ UNCHANGED << vars, boardVars, pinVars, m_enabled, spc, m_input_buffer >>

\* GET /api/serial/output, served by the server's thread at any time
handleSerialOutput ==
    /\ SerialOp("getOutput", << >>, << >>, getOutput_left(m_output_buffer),
                getOutput_result(m_output_buffer))
    /\ UNCHANGED << vars, boardVars, pinVars, m_enabled, spc, m_input_buffer >>

SerialNext ==
    \/ Serial_begin
    \/ \E s \in PrintStrings : Serial_print(s)
    \/ \E s \in PrintStrings : Serial_println(s)
    \/ Serial_println_newline
    \/ \E b \in WriteBytes : Serial_write(b)
    \/ handleSerialOutput

SerialSpec == Init /\ [][SerialNext]_allVars

\* ------------------------------------------------------------------------
\* SerialEmulator::begin statement by statement, the input queue, and the
\* operations of other threads meanwhile
\* ------------------------------------------------------------------------
\* the strings POST /api/serial/input appends to the input queue
InputStrings == {<< "x", Newline >>}

\* a lock that is released as soon as the input queue is empty
ReleasedAfterInput(holder) == NoHolder

\* std::lock_guard: the mutex stays with its holder to the end of begin()
HeldToEndOfScope(holder) == holder

\* begin(): m_enabled = true;
SerialEmulator_begin_enable ==
    /\ bpc = "idle"
    /\ bpc' = "lock"
    /\ m_enabled' = TRUE
    /\ UNCHANGED << vars, boardVars, pinVars, m_output_buffer, spc, scall,
                    written, enqueued, drained, m_input_buffer,
                    m_buffer_mutex >>

\* begin(): std::lock_guard<std::mutex> lock(m_buffer_mutex);
SerialEmulator_begin_lock ==
    /\ bpc = "lock"
    /\ m_buffer_mutex = NoHolder
    /\ m_buffer_mutex' = "begin"
    /\ bpc' = "clear_input"
    /\ enqueued' = << >>
    /\ drained' = << >>
    /\ UNCHANGED << vars, boardVars, pinVars, m_output_buffer, m_enabled, spc,
                    scall, written, m_input_buffer >>

\* begin(): while (!m_input_buffer.empty()) m_input_buffer.pop();
SerialEmulator_begin_popInput ==
    /\ bpc = "clear_input"
    /\ IF m_input_buffer # << >>
       THEN /\ m_input_buffer' = Tail(m_input_buffer)
            /\ UNCHANGED << bpc, m_buffer_mutex >>
       ELSE /\ bpc' = "clear_output"
            /\ m_buffer_mutex' = HeldToEndOfScope(m_buffer_mutex)
            /\ UNCHANGED m_input_buffer
    /\ UNCHANGED << vars, boardVars, pinVars, m_output_buffer, m_enabled, spc,
                    scall, written, enqueued, drained >>

\* begin(): while (!m_output_buffer.empty()) m_output_buffer.pop();
SerialEmulator_begin_popOutput ==
    /\ bpc = "clear_output"
    /\ IF m_output_buffer # << >>
       THEN /\ m_output_buffer' = Tail(m_output_buffer)
            /\ UNCHANGED bpc
       ELSE /\ bpc' = "unlock"
            /\ UNCHANGED m_output_buffer
    /\ UNCHANGED << vars, boardVars, pinVars, m_enabled, spc, scall, written,
                    enqueued, drained, m_input_buffer, m_buffer_mutex >>

\* begin(): the end of the scope releases the mutex
SerialEmulator_begin_unlock ==
    /\ bpc = "unlock"
    /\ bpc' = "idle"
    /\ m_buffer_mutex' = NoHolder
    /\ enqueued' = << >>
    /\ drained' = << >>
    /\ UNCHANGED << vars, boardVars, pinVars, m_output_buffer, m_enabled, spc,
                    scall, written, m_input_buffer >>

\* Serial.available()
Serial_available ==
    /\ SerialOp("available", << >>, << >>, m_output_buffer,
                Len(m_input_buffer))
    /\ UNCHANGED << vars, boardVars, pinVars, m_enabled, spc, m_input_buffer >>

\* Serial.read(): -1 when the input queue is empty
Serial_read ==
    /\ SerialOp("read", << >>, << >>, m_output_buffer,
                IF m_input_buffer = << >> THEN -1 ELSE Head(m_input_buffer))
    /\ m_input_buffer' = IF m_input_buffer = << >> THEN m_input_buffer
                         ELSE Tail(m_input_buffer)
    /\ UNCHANGED << vars, boardVars, pinVars, m_enabled, spc >>

\* POST /api/serial/input: arduino_sim.getSerial().addInput(data + "\n")
handleSerialInput(p_input) ==
    /\ Len(m_input_buffer) + Len(p_input) <= MaxIn
    /\ SerialOp("addInput", p_input, << >>, m_output_buffer, << >>)
    /\ m_input_buffer' = m_input_buffer \o p_input
    /\ UNCHANGED << vars, boardVars, pinVars, m_enabled, spc >>

SerialLockNext ==
    \/ SerialEmulator_begin_enable
    \/ SerialEmulator_begin_lock
    \/ SerialEmulator_begin_popInput
    \/ SerialEmulator_begin_popOutput
    \/ SerialEmulator_begin_unlock
    \/ \E s \in PrintStrings : Serial_print(s)
    \/ \E b \in WriteBytes : Serial_write(b)
    \/ Serial_available
    \/ Serial_read
    \/ \E s \in InputStrings : handleSerialInput(s)
    \/ handleSerialOutput

SerialLockSpec == Init /\ [][SerialLockNext]_allVars

\* ------------------------------------------------------------------------
\* The scheduler of loop(): times in microseconds, exact sleeps
\* ------------------------------------------------------------------------
\* number of loop() calls in a behaviour
MaxIter == 3
\* values of the -f option
Frequencies == {0, 1, 3, 100, 101}
\* durations of a loop() call, microseconds
LoopDurations == {0, 400000, 2500000}

\* a scheduler that keeps the missed target
KeepBacklog(p_now, p_target) == p_target

\* else { next_loop_time = now; }
Resync(p_now, p_target) == p_now

\* parseCommandLine: the -f option and the test of its range
parseCommandLine(f) ==
    /\ tpc = "options"
    /\ IF f < MinFrequency \/ f > MaxFrequency
       THEN /\ tpc' = "exit"
            /\ UNCHANGED frequency
       ELSE /\ tpc' = "period"
            /\ frequency' = f
    /\ UNCHANGED << vars, board, loaded, pinVars, serialVars, loop_period,
                    next_loop_time, now, starts >>

\* loop_period = microseconds(1000000 / m_config.frequency);
\* next_loop_time = steady_clock::now();
runArduinoSimulation_period ==
    /\ tpc = "period"
    /\ loop_period' = MicrosecondsPerSecond \div frequency
    /\ next_loop_time' = now
    /\ tpc' = "call"
    /\ UNCHANGED << vars, board, loaded, pinVars, serialVars, frequency, now,
                    starts >>

\* loop(); the call takes d microseconds
runArduinoSimulation_callLoop(d) ==
    /\ tpc = "call"
    /\ Len(starts) < MaxIter
    /\ starts' = Append(starts, now)
    /\ now' = now + d
    /\ tpc' = "sleep"
    /\ UNCHANGED << vars, board, loaded, pinVars, serialVars, frequency,
                    loop_period, next_loop_time >>

\* next_loop_time += loop_period; now = steady_clock::now();
\* if (now < next_loop_time) sleep_until(next_loop_time);
\* else next_loop_time = now;
runArduinoSimulation_sleep ==
    /\ tpc = "sleep"
    /\ LET target == next_loop_time + loop_period
       IN  IF now < target
           THEN /\ next_loop_time' = target
                /\ now' = target
           ELSE /\ next_loop_time' = Resync(now, target)
                /\ UNCHANGED now
    /\ tpc' = "call"
    /\ UNCHANGED << vars, board, loaded, pinVars, serialVars, frequency,
                    loop_period, starts >>

SchedulerNext ==
    \/ \E f \in Frequencies : parseCommandLine(f)
    \/ runArduinoSimulation_period
    \/ \E d \in LoopDurations : runArduinoSimulation_callLoop(d)
    \/ runArduinoSimulation_sleep

SchedulerSpec == Init /\ [][SchedulerNext]_allVars

\* ------------------------------------------------------------------------
\* WebServer::restartArduinoSimulation
\* ------------------------------------------------------------------------
\* a restart that puts the pins back to their defaults
restart_pinsReset(ps) == initializePins

\* "Note: we don't reset pins - setup() will reconfigure them"
restart_pins(ps) == ps

\* restartArduinoSimulation(): the handles are detached when joinable, the
\* serial queues are cleared by begin(9600), the tick counter and the flags
\* are set and the two threads are created.  The tone generator is not
\* modelled
restartArduinoSimulation ==
    /\ ProcessAlive
    /\ nworkers < MaxRuns
    /\ nwatchdogs < MaxRuns
    /\ m_enabled' = TRUE
    /\ m_input_buffer' = << >>
    /\ SerialOp("begin", << >>, << >>, << >>, << >>)
    /\ pins' = restart_pins(pins)
    /\ m_tick_counter' = 0
    /\ running' = TRUE
    /\ m_watchdog_should_stop' = FALSE
    /\ nworkers' = nworkers + 1
    /\ wpc' = [wpc EXCEPT ![nworkers + 1] = "start"]
    /\ m_arduino_thread' = nworkers + 1
    /\ nwatchdogs' = nwatchdogs + 1
    /\ wdpc' = [wdpc EXCEPT ![nwatchdogs + 1] = "init"]
    /\ m_watchdog_thread' = nwatchdogs + 1
    /\ UNCHANGED << m_debug_log, timer_running, emu_state, crashed,
                    setupCalls, setupReturns, last_tick, frozen_seconds,
                    clientVars, logHist, stopHist, resetHist, cancelHist >>
    /\ UNCHANGED << boardVars, call, nops, forced, irqVars, toggleVars, spc >>

\* the threads a later restart can find: no restart follows the threads of
\* the last one the bound allows
Stale == 1..(MaxRuns - 1)

\* the restart with the threads it finds, a sketch that configures pin 13
\* and prints, and serial input from the control plane
RestartNext ==
    \/ restartArduinoSimulation
    \/ \E g \in Stale : ExecutionThread(g)
    \/ \E g \in Stale : WatchdogThread(g)
    \/ load("none")
    \/ \E m \in IrqModes : Sketch_pinMode(13, m)
    \/ \E m \in {RISING} : Sketch_attachInterrupt(13, m)
    \/ \E s \in {<< "a" >>} : Serial_print(s)
    \/ \E s \in InputStrings : handleSerialInput(s)

RestartSpec == Init /\ [][RestartNext]_allVars

\* ------------------------------------------------------------------------
\* Sequences of three operations on one pin with an interrupt bound
\* ------------------------------------------------------------------------
\* number of operations on the pin
MaxEdgeOps == 3
\* a PWM-capable pin of the registry: every operation applies to it
EdgePins == {3}
EdgeModes == {OUTPUT, INPUT_PULLUP}
\* LOW, HIGH and an integer that is neither
EdgeValues == {LOW, HIGH, 2}
EdgePwm == {0, 255}
EdgeAnalog == {0, 1023}

\* pinMode(p, mode)
Edge_pinMode(p, mode) ==
    /\ loaded
    /\ PinOpUpTo(MaxEdgeOps, "pinMode", p, mode, pinMode(pins, p, mode), 0,
                 FALSE)

\* attachInterrupt(p, function, mode)
Edge_attachInterrupt(p, mode) ==
    /\ loaded
    /\ PinOpUpTo(MaxEdgeOps, "attachInterrupt", p, mode,
                 attachInterrupt(pins, p, mode), 0, FALSE)

\* digitalWrite(p, v)
Edge_digitalWrite(p, v) ==
    /\ loaded
    /\ LET w == digitalWrite(pins, p, v)
       IN  PinOpUpTo(MaxEdgeOps, "digitalWrite", p, v, checkInterrupt(w, p),
                     0, Fires(w, p))

\* analogWrite(p, v)
Edge_analogWrite(p, v) ==
    /\ loaded
    /\ PinOpUpTo(MaxEdgeOps, "analogWrite", p, v, analogWrite(pins, p, v), 0,
                 FALSE)

\* arduino_sim.forcePinValue(p, v)
Edge_forcePinValue(p, v) ==
    /\ loaded
    /\ LET w == forcePinValue(pins, p, v)
       IN  PinOpUpTo(MaxEdgeOps, "forcePinValue", p, v, checkInterrupt(w, p),
                     0, Fires(w, p))

\* arduino_sim.setAnalogValue(p, v)
Edge_setAnalogValue(p, v) ==
    /\ loaded
    /\ PinOpUpTo(MaxEdgeOps, "setAnalogValue", p, v,
                 setAnalogValue(pins, p, v), 0, FALSE)

EdgeNext ==
    \/ load("none")
    \/ \E p \in EdgePins, m \in EdgeModes : Edge_pinMode(p, m)
    \/ \E p \in EdgePins, m \in InterruptModes : Edge_attachInterrupt(p, m)
    \/ \E p \in EdgePins, v \in EdgeValues : Edge_digitalWrite(p, v)
    \/ \E p \in EdgePins, v \in EdgePwm : Edge_analogWrite(p, v)
    \/ \E p \in EdgePins, v \in EdgeValues : Edge_forcePinValue(p, v)
    \/ \E p \in EdgePins, v \in EdgeAnalog : Edge_setAnalogValue(p, v)

EdgeSpec == Init /\ [][EdgeNext]_allVars

\* ------------------------------------------------------------------------
\* WebServer::handleSetPin: toggle commands (value -1) on the handler
\* threads of the server's pool, statement by statement
\* ------------------------------------------------------------------------
\* Pin const* p = arduino_sim.getPin(pin);
\* value = (p->value == HIGH) ? LOW : HIGH;
handleSetPin_toggleRead(h, pin) ==
    /\ loaded
    /\ setpin[h].pc = "idle"
    /\ setpin[h].answered < MaxToggles
    /\ getPin(pins, pin)
    /\ setpin' = [setpin EXCEPT
                     ![h].pc = "force",
                     ![h].pin = pin,
                     ![h].value = IF pins[pin].value = HIGH THEN LOW
                                  ELSE HIGH]
    /\ UNCHANGED << vars, boardVars, serialVars, pins, call, nops, forced,
                    irqVars >>

\* arduino_sim.forcePinValue(pin, value); response["status"] = "success";
handleSetPin_toggleForce(h) ==
    /\ setpin[h].pc = "force"
    /\ pins' = checkInterrupt(
                   forcePinValue(pins, setpin[h].pin, setpin[h].value),
                   setpin[h].pin)
    /\ forced' = forced \cup {setpin[h].pin}
    /\ setpin' = [setpin EXCEPT
                     ![h].pc = "idle",
                     ![h].answered = @ + 1,
                     ![h].toggled[setpin[h].pin] = @ + 1]
    /\ UNCHANGED << vars, boardVars, serialVars, call, nops, irqVars >>

ToggleNext ==
    \/ load("none")
    \/ \E h \in Clients, p \in TogglePins : handleSetPin_toggleRead(h, p)
    \/ \E h \in Clients : handleSetPin_toggleForce(h)

ToggleSpec == Init /\ [][ToggleNext]_allVars

\* ------------------------------------------------------------------------
\* Properties
\* ------------------------------------------------------------------------
\* sum of f[1] .. f[n]
RECURSIVE SumUpTo(_, _)
SumUpTo(f, n) == IF n = 0 THEN 0 ELSE f[n] + SumUpTo(f, n - 1)

\* positions of the watchdog after it has declared the loop frozen
FreezeBranch == {"log", "setrun", "setstop", "chkjoin", "detach"}

\* an execution thread returns from a call of loop() in this step
LoopCompletes(g) == wpc[g] = "loop" /\ wpc'[g] # "loop"

\* a start command resets the tick counter in this step
StartResetsTick(c) == cpc[c] = "start_tick" /\ cpc'[c] = "start_spawn_a"

\* C1: the tick counter changes only by +1 when a loop() call completes, and
\* by the reset to 0 of a start command; every completed loop() call adds 1
C1_TickCounter ==
    [][ /\ m_tick_counter' # m_tick_counter =>
              \/ /\ m_tick_counter' = m_tick_counter + 1
                 /\ \E g \in Runs : LoopCompletes(g)
              \/ /\ m_tick_counter' = 0
                 /\ \E c \in Clients : StartResetsTick(c)
        /\ \A g \in Runs :
              LoopCompletes(g) => m_tick_counter' = m_tick_counter + 1
      ]_vars

\* the second run has completed a loop() call after the start reset the counter
C1_Witness ==
    /\ nworkers = 2
    /\ wpc[1] = "done"
    /\ wpc[2] = "check"
    /\ m_tick_counter = 1

\* C3: once a stop command has returned success, and until the next start
\* command, isRunning() is false, the execution thread and the watchdog
\* thread of the run have terminated and were joined, and the tick counter
\* does not change
C3_StopIsFinal ==
    [][ stopReturned' =>
          /\ ~running'
          /\ m_arduino_thread' = NoThread
          /\ m_watchdog_thread' = NoThread
          /\ wpc'[nworkers'] = "done"
          /\ wdpc'[nwatchdogs'] = "done"
          /\ stopReturned => m_tick_counter' = m_tick_counter
      ]_vars

\* C4: every execution thread calls setup() exactly once, and is in loop()
\* only after that call has returned
C4_SetupOnceBeforeLoop ==
    \A g \in Runs :
        /\ setupCalls[g] <= 1
        /\ wpc[g] \in {"setup", "check", "loop", "stuck", "done"}
              => setupCalls[g] = 1
        /\ wpc[g] \in {"check", "loop", "stuck", "done"}
              => setupReturns[g] = 1
        /\ wpc[g] \in {"none", "start", "setup"} => setupReturns[g] = 0

\* the second run is inside loop() after one setup() call, as is the first
C4_Witness ==
    /\ wpc[2] \in {"loop", "stuck"}
    /\ setupCalls[2] = 1
    /\ setupCalls[1] = 1

\* C5: no thread is ever inside join() on an execution thread whose loop()
\* never returns
C5_StuckNeverJoined ==
    \A c \in Clients :
        cpc[c] \in {"start_joining_a", "sas_joining_a"}
            => wpc[cjoin[c]] # "stuck"

C7_OneMessagePerFreeze ==
    /\ SumUpTo(logged, MaxRuns) =
          forcedStops + Cardinality({g \in Runs : wdpc[g] = "setrun"})
    /\ \A g \in Runs : delivered[g] + CountIn(m_debug_log, g) = logged[g]

\* C8: after the watchdog has forced the simulation to not-running, and
\* until the next start command, the tick counter does not change
C8_TickFrozenAfterFreeze ==
    [][ (wdForced /\ wdForced') => m_tick_counter' = m_tick_counter ]_vars

\* the command of a web client's Reset button is over in this step
ResetCompletes(c) ==
    /\ cpc[c] # "idle"
    /\ cpc'[c] = "idle"
    /\ \/ cop[c] = "reset"
       \/ cop[c] = "start" /\ cwas[c]

\* C10: the reset handler leaves the simulation stopped and the emulated
\* state at its defaults, and when the Reset command is over the simulation
\* is running exactly if it was running when the command was issued
C10_ResetKeepsRunState ==
    [][ \A c \in Clients :
          /\ (cpc[c] = "reset_do" /\ cpc'[c] = "reset_resp")
                => (~running' /\ emu_state' = "default")
          /\ ResetCompletes(c) => running' = resetFrom[c]
      ]_vars

\* the current run's loop() never returns, no other execution thread can
\* complete a loop() call, and no command is being handled
StuckAlone ==
    /\ running
    /\ nworkers > 0
    /\ wpc[nworkers] = "stuck"
    /\ \A g \in Runs : wpc[g] \in {"none", "stuck", "done"}
    /\ \A c \in Clients : cpc[c] = "idle"

\* C2: if the loop() of the current run never returns, the simulation
\* eventually becomes not-running, also when no command is issued
C2_FrozenLoopStops == StuckAlone ~> ~running

\* the watchdog has stopped a simulation whose loop() never returns
C2_Witness ==
    \E g \in Runs :
        /\ wpc[g] = "stuck"
        /\ wdpc[g] = "done"
        /\ logged[g] = 1
        /\ forcedStops > 0
        /\ ~running
        /\ \A c \in Clients : cpc[c] = "idle" /\ ~indicator[c]

\* C9: every command a client has issued eventually returns a response
\* (behaviours in which the tick counter reaches MaxTick are left aside: there
\* a loop() call that returns can no longer return in the model)
C9_CommandsReturn ==
    \A c \in Clients :
        (cpc[c] # "idle") ~> (cpc[c] = "idle" \/ m_tick_counter = MaxTick)

\* ------------------------------------------------------------------------
\* Properties of the emulated hardware
\* ------------------------------------------------------------------------
\* the operations of the Arduino API and of the emulator on one pin
ApiOps == {"pinMode", "digitalWrite", "digitalRead", "analogWrite",
           "analogRead", "attachInterrupt", "detachInterrupt",
           "forcePinValue", "setAnalogValue"}

\* the last operation was op on a pin index that is not in the registry
InvalidPinCall == call.op \in ApiOps /\ ~getPin(call.before, call.pin)

\* C11: pinMode, digitalWrite, analogWrite, forcePinValue, setAnalogValue,
\* attachInterrupt and detachInterrupt on a pin index that is not in the
\* registry change no state, create no entry and invoke no callback;
\* digitalRead of such an index returns LOW and analogRead returns 0
C11_InvalidPinNoOp ==
    InvalidPinCall =>
        /\ pins = call.before
        /\ DOMAIN pins = 0..(RegistrySize - 1)
        /\ ~call.fired
        /\ call.op = "digitalRead" => call.ret = LOW
        /\ call.op = "analogRead" => call.ret = 0

\* analogWrite was called on an index outside the registry after another
\* operation
C11_Witness ==
    /\ nops = MaxOps
    /\ call.op = "analogWrite"
    /\ call.pin = 20
    /\ ~getPin(pins, 20)

\* C12: after analogWrite on a PWM-capable pin, the pin's mode is OUTPUT and
\* its configured flag is true, whatever they were before the call
C12_AnalogWriteSetsOutput ==
    (/\ call.op = "analogWrite"
     /\ getPin(call.before, call.pin)
     /\ call.before[call.pin].pwm_capable)
        => /\ pins[call.pin].mode = OUTPUT
           /\ pins[call.pin].configured

\* analogWrite was called on PWM pin 3 while it was configured as an input
\* with pull-up
C12_Witness ==
    /\ call.op = "analogWrite"
    /\ call.pin = 3
    /\ call.before[3].mode = INPUT_PULLUP
    /\ call.before[3].configured
    /\ pins[3].mode = OUTPUT

\* the last command was set-PWM on a pin that does not exist or is not
\* PWM-capable
PWMSetOnPlainPin ==
    /\ call.op = "handlePWMSet"
    /\ \/ ~getPin(call.before, call.pin)
       \/ ~call.before[call.pin].pwm_capable

\* C16: the set-PWM command on a pin that is not PWM-capable (pin 13 on the
\* default board) or that does not exist returns an error result and leaves
\* every field of every pin unchanged, pwm_value included
C16_PWMSetRejected ==
    /\ PWMSetOnPlainPin => call.ret = "error" /\ pins = call.before
    /\ (call.op = "handlePWMSet" /\ call.pin \in {13, 20}) => PWMSetOnPlainPin

\* set-PWM was sent for pin 13 with a non-zero value
C16_Witness ==
    /\ call.op = "handlePWMSet"
    /\ call.pin = 13
    /\ call.arg = 128
    /\ call.ret = "error"
    /\ pins[13].pwm_value = 0

\* the last command was a pin command of the control plane that addresses a
\* pin index outside the registry
CommandOutsideRegistry ==
    \/ /\ call.op \in {"handleSetPin", "handlePWMSet"}
       /\ ~getPin(call.before, call.pin)
    \/ /\ call.op = "handleAnalogSet"
       /\ ~getPin(call.before, call.pin + AnalogOffset)

\* C18: every pin command of the control plane that addresses a pin index
\* outside the registry, set-pin with a value of 0 or 1 included, returns an
\* error result and changes no pin
C18_OutsideRegistryIsError ==
    CommandOutsideRegistry => call.ret = "error" /\ pins = call.before

\* the last two operations were setAnalogValue(p, v) and then analogRead(p)
\* on the same existing pin index p
AnalogRoundTrip ==
    /\ call.op = "analogRead"
    /\ call.prev.op = "setAnalogValue"
    /\ call.prev.pin = call.pin
    /\ getPin(call.before, call.pin)

\* C14 as stated: for every existing pin index p and every value v,
\* setAnalogValue(p, v) followed by analogRead(p) returns exactly v
C14_AnalogRoundTripAnyPin ==
    AnalogRoundTrip => call.ret = call.prev.arg

\* C14: setAnalogValue(p, v) followed by analogRead(p) returns exactly v for
\* every existing pin index p outside 0..5; for p in 0..5 analogRead takes p
\* as a logical analog index and returns the analog value of pin p + 14, which
\* setAnalogValue(p, v) has not changed
C14_AnalogRoundTrip ==
    AnalogRoundTrip =>
        IF call.pin >= 0 /\ call.pin <= LastLogicalAnalog
        THEN /\ call.ret = call.before[call.pin + AnalogOffset].analog_value
             /\ call.before[call.pin].analog_value = call.prev.arg
        ELSE call.ret = call.prev.arg

\* setAnalogValue(17, 513) was followed by analogRead(17), which returned 513
C14_Witness ==
    /\ AnalogRoundTrip
    /\ call.pin = 17
    /\ call.prev.arg = 513
    /\ call.ret = 513

\* ------------------------------------------------------------------------
\* Properties of the board description
\* ------------------------------------------------------------------------
\* the pin index the loaded board description binds to analog input i
MappedAnalogPin(i) == board.pin_mapping[KeyOfAnalog(i)]

\* C13: analogRead(i) for a logical index i in 0..5 returns the analog value
\* of the pin that the board description's pin_mapping binds to analog input
\* i (0 when that pin is not in the registry)
C13_AnalogReadFollowsMapping ==
    (/\ call.op = "analogRead"
     /\ call.pin >= 0
     /\ call.pin <= LastLogicalAnalog
     /\ KeyOfAnalog(call.pin) \in DOMAIN board.pin_mapping)
        => call.ret = IF getPin(call.before, MappedAnalogPin(call.pin))
                      THEN call.before[MappedAnalogPin(call.pin)].analog_value
                      ELSE 0

\* the request r is a set-pin command with value -1 on a pin of the registry
\* ps
IsToggle(r, ps) ==
    r.op = "handleSetPin" /\ r.arg = -1 /\ getPin(ps, r.pin)

\* C17: the set-pin command with value -1 on an existing pin replaces the
\* pin's digital value by its complement (LOW becomes HIGH, HIGH becomes LOW)
\* whatever the pin's mode, and a subsequent get-pins read shows the new value
C17_ToggleShownByGetPins ==
    /\ IsToggle(call, call.before) =>
          /\ call.ret = "success"
          /\ call.before[call.pin].value = LOW => pins[call.pin].value = HIGH
          /\ call.before[call.pin].value = HIGH => pins[call.pin].value = LOW
    /\ (call.op = "handleGetPins" /\ IsToggle(call.prev, call.before)) =>
          /\ call.prev.pin \in DOMAIN call.ret
          /\ call.ret[call.prev.pin].value = call.before[call.prev.pin].value

\* the pin indices of the loaded board description
BoardPins == 0..(board.total_pins - 1)

\* C19: the pin registry is derived from the board description: for every
\* loaded board description the registry holds exactly the pin indices
\* 0..total_pins-1, a pin is PWM-capable if and only if its index is in
\* pwm_pins, and get-pins returns one entry for each index in 0..total_pins-1
C19_RegistryFromBoard ==
    loaded =>
        /\ DOMAIN pins = BoardPins
        /\ \A i \in DOMAIN pins : pins[i].pwm_capable <=> i \in board.pwm_pins
        /\ call.op = "handleGetPins" => DOMAIN call.ret = BoardPins

\* the analog keys of the loaded pin_mapping and the pin indices they name
AnalogKeys == {k \in DOMAIN board.pin_mapping : IsAnalogKey(k)}
AnalogIndices == {board.pin_mapping[k] : k \in AnalogKeys}

\* initialize() has run on a pin_mapping with at least one analog key
InitializedWithAnalog == loaded /\ AnalogKeys # {}

\* analog_input_pins is in ascending order
AnalogInputsSorted ==
    \A i, j \in 1..Len(board.analog_input_pins) :
        i <= j => board.analog_input_pins[i] <= board.analog_input_pins[j]

\* C20 as stated: after initialize on a pin_mapping with at least one analog
\* key, analog_input_pins is sorted, the digital pins are exactly the indices
\* [0, first_analog), the analog pins exactly the indices
\* [first_analog, total_pins), and digital_pins + analog_pins = total_pins
C20_PartitionExact ==
    InitializedWithAnalog =>
        /\ AnalogInputsSorted
        /\ board.digital_pins = board.analog_input_pins[1]
        /\ AnalogIndices = board.digital_pins..(board.total_pins - 1)
        /\ board.digital_pins + board.analog_pins = board.total_pins

\* C20: after initialize on a pin_mapping with at least one analog key,
\* analog_input_pins holds the values of the analog keys in ascending order,
\* analog_pins is the number of analog keys, digital_pins is the lowest
\* analog index and total_pins the highest plus one, so every analog index
\* lies in [digital_pins, total_pins); digital_pins + analog_pins =
\* total_pins exactly when the analog keys name each index of that range once
C20_DerivedValues ==
    InitializedWithAnalog =>
        /\ AnalogInputsSorted
        /\ Len(board.analog_input_pins) = Cardinality(AnalogKeys)
        /\ {board.analog_input_pins[i] :
               i \in 1..Len(board.analog_input_pins)} = AnalogIndices
        /\ board.analog_pins = Cardinality(AnalogKeys)
        /\ board.digital_pins = board.analog_input_pins[1]
        /\ board.total_pins
              = board.analog_input_pins[Len(board.analog_input_pins)] + 1
        /\ AnalogIndices \subseteq board.digital_pins..(board.total_pins - 1)
        /\ (board.digital_pins + board.analog_pins = board.total_pins)
              <=> /\ AnalogIndices
                        = board.digital_pins..(board.total_pins - 1)
                  /\ Cardinality(AnalogIndices) = Cardinality(AnalogKeys)

\* a board file whose analog inputs A0 and A1 are the pins 14 and 16 was
\* loaded and a pin command was served
C20_Witness ==
    /\ InitializedWithAnalog
    /\ board.analog_input_pins = << 14, 16 >>
    /\ board.digital_pins + board.analog_pins # board.total_pins
    /\ call.op = "handleGetPins"

\* ------------------------------------------------------------------------
\* Properties of the serial output
\* ------------------------------------------------------------------------
\* the last operation on Serial was a read of the output
OutputRead == scall.op = "getOutput"

\* C15 as stated: when at least one character has been written since the
\* last read, get-serial-output returns a non-empty string, and a second call
\* with no intervening write returns the empty string
C15_DrainNonEmpty ==
    /\ (OutputRead /\ scall.written) => scall.ret # << >>
    /\ (OutputRead /\ scall.prev = "getOutput") => scall.ret = << >>

\* s ends with the sequence t
EndsWith(s, t) ==
    /\ Len(s) >= Len(t)
    /\ SubSeq(s, Len(s) - Len(t) + 1, Len(s)) = t

\* C15: get-serial-output returns the characters that are in the output
\* queue, in the order they were pushed, and empties the queue; what it
\* returns ends with the characters the operation before it pushed, so it is
\* non-empty when that operation pushed one, and a second call with no
\* intervening write returns the empty string; a queue that is not empty
\* holds characters written since the last read, but characters written
\* since the last read are no longer in the queue after Serial.begin
C15_DrainReturnsQueue ==
    /\ m_output_buffer # << >> => written
    /\ OutputRead =>
          /\ scall.ret = scall.before
          /\ m_output_buffer = << >>
          /\ ~written
          /\ scall.prev = "getOutput" => scall.ret = << >>
          /\ EndsWith(scall.ret, scall.prevPushed)

\* the output was read after characters were written and returned them all
C15_Witness ==
    /\ OutputRead
    /\ scall.written
    /\ scall.prevPushed = << Newline >>
    /\ scall.ret = << "a", "b", Newline >>
    /\ m_output_buffer = << >>

\* ------------------------------------------------------------------------
\* Properties of the threads under restarts and concurrent commands
\* ------------------------------------------------------------------------
\* the execution thread g takes the step that calls loop() once more
CallsLoop(g) == wpc[g] = "check" /\ wpc'[g] \in {"loop", "stuck"}

\* C24: at most one thread calls loop() from the scheduler loop: an execution
\* thread never begins a call of loop() while another execution thread is
\* alive, so a thread abandoned after a freeze never resumes calling loop()
\* alongside the thread of a later start
C24_OneLoopCaller ==
    [][\A g \in Runs :
          CallsLoop(g) => \A h \in Runs \ {g} : ~Alive(h)]_vars

\* the start command of client c is past its isRunning() test and before
\* its response: the part that joins, sets the flags and creates the threads
Creating(c) ==
    /\ cop[c] = "start"
    /\ cpc[c] \in {"start_ja", "start_joining_a", "start_jw", "start_joining_w",
                   "start_set", "start_ws", "start_tick", "start_spawn_a",
                   "start_spawn_w"}

\* the handler of client c tests isRunning() and finds the simulation running
RejectedStart(c) == cpc[c] = "start_chk" /\ cpc'[c] # "start_chk" /\ running

\* C26: a start command that finds the simulation running answers the error
\* and changes nothing, and of two start commands handled concurrently only
\* one gets past the test and creates the threads: no start creates the
\* execution thread while another start is past the test too, and no start
\* terminates the program
C26_StartRejectedWhileRunning ==
    [][/\ \A c \in Clients :
             RejectedStart(c) =>
                 /\ cpc'[c] = "idle"
                 /\ UNCHANGED << sharedVars, spawnVars >>
       /\ \A c \in Clients :
             Creating(c) /\ cpc'[c] # cpc[c] =>
                 /\ ~crashed'
                 /\ \A d \in Clients \ {c} : ~Creating(d)]_vars

\* C25: stop is cooperative: an execution thread that was alive when a stop
\* command cleared the running flag never calls loop() again, whatever
\* commands follow
C25_StopIsCooperative ==
    [][\A g \in cleared : ~CallsLoop(g)]_vars

\* client c assigns a new thread to a handle that is joinable, or destroys
\* such a handle
LosesJoinable(c) ==
    \/ handleStartSimulation_spawnArduino(c) /\ m_arduino_thread # NoThread
    \/ handleStartSimulation_spawnWatchdog(c) /\ m_watchdog_thread # NoThread
    \/ /\ WebServer_destroyMembers(c)
       /\ m_arduino_thread # NoThread \/ m_watchdog_thread # NoThread

\* C29: no joinable thread handle is overwritten or destroyed: when a start
\* assigns the execution or the watchdog thread, and when the server object
\* is destroyed, the handle has been joined or detached before
C29_NoJoinableHandleLost ==
    [][\A c \in Clients : ~LosesJoinable(c)]_vars

\* ------------------------------------------------------------------------
\* Properties of digitalWrite and digitalRead
\* ------------------------------------------------------------------------
\* the last call is op on a pin of the registry
CallOnPin(op) == call.op = op /\ call.pin \in DOMAIN call.before

\* C22: digitalWrite on a pin whose mode is not OUTPUT leaves the value of
\* the pin as it was, and on an OUTPUT pin digitalRead gives the value
\* written; digitalRead changes nothing and returns the stored value whatever
\* the mode; it gives LOW for a pin that was never configured and never
\* forced
C22_DigitalWriteNeedsOutput ==
    /\ CallOnPin("digitalWrite")
          => IF call.before[call.pin].mode = OUTPUT
             THEN digitalRead(pins, call.pin) = call.arg
             ELSE pins[call.pin].value = call.before[call.pin].value
    /\ CallOnPin("digitalRead")
          => /\ pins = call.before
             /\ call.ret = pins[call.pin].value
    /\ \A p \in DOMAIN pins :
          ~pins[p].configured /\ p \notin forced
             => digitalRead(pins, p) = LOW

\* digitalWrite(HIGH) was called on a configured pin that is not an OUTPUT
\* and holds LOW
C22_Witness ==
    /\ CallOnPin("digitalWrite")
    /\ call.arg = HIGH
    /\ call.before[call.pin].configured
    /\ call.before[call.pin].mode # OUTPUT
    /\ call.before[call.pin].value = LOW

\* ------------------------------------------------------------------------
\* Properties of the serial output under interleaved writers and drains
\* ------------------------------------------------------------------------
\* C27: whatever the interleaving of print, println, write and getOutput,
\* the strings the successive getOutput calls returned, put end to end and
\* followed by what is still queued, are the characters pushed, in the order
\* they were pushed: none is lost and none is returned twice; and a
\* getOutput returns the whole queue and leaves it empty in one step
C27_DrainsAreTheOutput ==
    /\ enqueued = drained \o m_output_buffer
    /\ OutputRead => scall.ret = scall.before /\ m_output_buffer = << >>

\* a second getOutput returned the newline of a println whose string an
\* earlier getOutput had returned
C27_Witness ==
    /\ OutputRead
    /\ scall.ret = << Newline >>
    /\ drained = << "a", "b", Newline >>

\* ------------------------------------------------------------------------
\* Properties of begin() under concurrent serial operations
\* ------------------------------------------------------------------------
\* begin() is between taking the mutex and releasing it: the queues may be
\* cleared in part
InsideBegin == bpc \in {"clear_input", "clear_output", "unlock"}

\* C23: begin() empties the input queue and the output queue in one critical
\* section: while it is between taking the mutex and releasing it no read,
\* available, addInput, print, write or getOutput is performed (the record
\* of the last operation stays as it is), so none sees one queue cleared and
\* not the other, or a queue cleared in part
C23_BeginClearsBothAtOnce ==
    [][InsideBegin => scall' = scall]_serialVars

\* begin() has emptied the input queue, holds the mutex and has the output
\* queue still to clear
C23_Witness ==
    /\ bpc = "clear_output"
    /\ m_buffer_mutex = "begin"
    /\ m_input_buffer = << >>
    /\ m_output_buffer = << "a", "b" >>
    /\ scall.op = "addInput"

\* ------------------------------------------------------------------------
\* Properties of the interrupt callbacks
\* ------------------------------------------------------------------------
\* C21: an interrupt callback triggered by a digital write runs on the
\* thread that made the write, and that thread is still inside the write
\* while the callback runs: forcePinValue's on the control-plane thread,
\* digitalWrite's on the execution thread
C21_CallbackOnWritersThread ==
    \A cb \in callbacks :
        /\ cb.by = cb.from
        /\ ipc[cb.from] = "callback"
        /\ ipin[cb.from] = cb.pin

\* a callback of a forcePinValue runs on the control-plane thread while a
\* callback of a digitalWrite runs on the execution thread
C21_Witness ==
    /\ \E cb \in callbacks : cb.from = "control" /\ cb.by = "control"
    /\ \E cb \in callbacks : cb.from = "worker" /\ cb.by = "worker"

\* ------------------------------------------------------------------------
\* Properties of the scheduler of loop()
\* ------------------------------------------------------------------------
\* time between the loop() call number i and the one before it
Gap(i) == starts[i] - starts[i - 1]

RestartStep == nworkers' = nworkers + 1

EdgeMatches(mode, old, new) ==
    \/ mode = CHANGE /\ old # new
    \/ mode = RISING /\ old = LOW /\ new = HIGH
    \/ mode = FALLING /\ old = HIGH /\ new = LOW

\* C31: a callback is invoked only by a digitalWrite or a forcePinValue on
\* a pin with a bound interrupt, and only when that call itself changes the
\* pin's digital value in the direction of the interrupt mode; a write that
\* leaves the value as it was, and attachInterrupt, invoke nothing
C31_CallbackOnlyOnOwnEdge ==
    (call.op # "none" /\ call.fired) =>
        /\ call.op \in {"digitalWrite", "forcePinValue"}
        /\ call.pin \in DOMAIN call.before
        /\ call.before[call.pin].interrupt_callback
        /\ EdgeMatches(call.before[call.pin].interrupt_mode,
                       call.before[call.pin].value, pins[call.pin].value)

\* ------------------------------------------------------------------------
\* Properties of the toggle command
\* ------------------------------------------------------------------------
\* no handler thread is inside a toggle command
NoToggleInProgress == \A h \in Clients : setpin[h].pc = "idle"

\* toggle commands answered on pin p, both handler threads together
ToggledTimes(p) == setpin["c1"].toggled[p] + setpin["c2"].toggled[p]

\* C32: a toggle command is an atomic read-modify-write: once two toggle
\* commands on the same pin have been answered, one by each handler thread
\* or both by the same one, the pin holds its original value (LOW)
C32_TwoTogglesRestoreThePin ==
    \A p \in TogglePins :
        (NoToggleInProgress /\ ToggledTimes(p) = 2) => pins[p].value = LOW

\* ------------------------------------------------------------------------
\* Properties of the stored digital value
\* ------------------------------------------------------------------------
\* C33: whatever pin operations were called and whatever integers they were
\* given, the digital value of every pin is LOW or HIGH
C33_ValueIsBinary == \A p \in DOMAIN pins : pins[p].value \in {LOW, HIGH}

\* ------------------------------------------------------------------------
\* Properties of the set-PWM command
\* ------------------------------------------------------------------------
\* C34: a set-PWM command answered with success leaves the registry that
\* analogWrite(pin, value) would have left: the pin is an OUTPUT, it is
\* configured, pwm_value is the value and the digital value is HIGH exactly
\* when the value is above 127
C34_PWMSetIsAnalogWrite ==
    (CallOnPin("handlePWMSet") /\ call.ret = "success")
        => /\ pins = analogWrite(call.before, call.pin, call.arg)
           /\ pins[call.pin].mode = OUTPUT
           /\ pins[call.pin].configured
           /\ pins[call.pin].pwm_value = call.arg
           /\ pins[call.pin].value = HIGH <=> call.arg > PwmThreshold

\* ------------------------------------------------------------------------
\* Properties of forcePinValue
\* ------------------------------------------------------------------------
\* C35: forcePinValue(p, v) on a pin of the registry stores HIGH for a v
\* that is not zero and LOW for zero whatever the mode of the pin, leaves
\* every other field but last_value, and every other pin, as it was, and
\* then evaluates the interrupt: with a callback bound, last_value becomes
\* the new value and the callback is invoked exactly when the stored edge
\* matches the mode; with none bound, last_value stays
C35_ForceIgnoresMode ==
    CallOnPin("forcePinValue") =>
        LET old == call.before[call.pin]
            new == pins[call.pin]
            v == IF call.arg # 0 THEN HIGH ELSE LOW
        IN  /\ new.value = v
            /\ [new EXCEPT !.last_value = old.last_value]
                  = [old EXCEPT !.value = v]
            /\ \A q \in DOMAIN pins \ {call.pin} : pins[q] = call.before[q]
            /\ IF old.interrupt_callback
               THEN /\ new.last_value = v
                    /\ call.fired
                          = EdgeMatches(old.interrupt_mode, old.last_value, v)
               ELSE /\ new.last_value = old.last_value
                    /\ ~call.fired

\* forcePinValue(p, 2) on an OUTPUT pin that held LOW and has a callback
\* bound: the pin holds HIGH and the callback was invoked
C35_Witness ==
    /\ CallOnPin("forcePinValue")
    /\ call.arg = 2
    /\ call.before[call.pin].mode = OUTPUT
    /\ call.before[call.pin].value = LOW
    /\ call.before[call.pin].interrupt_callback
    /\ pins[call.pin].value = HIGH
    /\ call.fired

\* ------------------------------------------------------------------------
\* Properties of the thresholds of the analog writes
\* ------------------------------------------------------------------------
\* C36: analogWrite(p, d) on a PWM-capable pin stores pwm_value = d, makes
\* the digital value HIGH exactly when d > 127 and leaves analog_value;
\* analogWrite on a pin that is not PWM-capable changes no field;
\* setAnalogValue(p, v) stores analog_value = v, makes the digital value HIGH
\* exactly when v > 512 and leaves pwm_value
C36_FixedThresholds ==
    /\ CallOnPin("analogWrite") =>
          IF call.before[call.pin].pwm_capable
          THEN /\ pins[call.pin].pwm_value = call.arg
               /\ pins[call.pin].value
                     = (IF call.arg > PwmThreshold THEN HIGH ELSE LOW)
               /\ pins[call.pin].analog_value
                     = call.before[call.pin].analog_value
          ELSE pins = call.before
    /\ CallOnPin("setAnalogValue") =>
          /\ pins[call.pin].analog_value = call.arg
          /\ pins[call.pin].value
                = (IF call.arg > AnalogThreshold THEN HIGH ELSE LOW)
          /\ pins[call.pin].pwm_value = call.before[call.pin].pwm_value

\* setAnalogValue(3, 513) made pin 3 HIGH, then analogWrite(3, 127) made it
\* LOW and left the analog value
C36_Witness ==
    /\ CallOnPin("analogWrite")
    /\ call.pin = 3
    /\ call.arg = PwmThreshold
    /\ call.prev = [op |-> "setAnalogValue", pin |-> 3,
                    arg |-> AnalogThreshold + 1]
    /\ call.before[3].value = HIGH
    /\ pins[3].value = LOW
    /\ pins[3].pwm_value = PwmThreshold
    /\ pins[3].analog_value = AnalogThreshold + 1

\* ------------------------------------------------------------------------
\* Properties of analogRead
\* ------------------------------------------------------------------------
\* the analog pins A0..A5 of the registry
AnalogPins == AnalogOffset..(AnalogOffset + LastLogicalAnalog)

\* C37: analogRead changes nothing but the configured flag of the analog
\* pin it reads: mode, value, pwm_value and analog_value of every pin stay,
\* and no pin other than an analog pin becomes configured
C37_AnalogReadMarksAnalogPinOnly ==
    call.op = "analogRead" =>
        /\ DOMAIN pins = DOMAIN call.before
        /\ \A q \in DOMAIN pins :
              /\ [pins[q] EXCEPT !.configured = FALSE]
                    = [call.before[q] EXCEPT !.configured = FALSE]
              /\ pins[q].configured # call.before[q].configured
                    => q \in AnalogPins /\ q = analogReadPin(call.pin)

\* ------------------------------------------------------------------------
\* Properties of Serial before begin()
\* ------------------------------------------------------------------------
\* C38: as long as begin() has not enabled Serial, print, println and write
\* push nothing: the output queue is empty and getOutput returns the empty
\* string
C38_SilentUntilBegin ==
    ~m_enabled =>
        /\ m_output_buffer = << >>
        /\ scall.op \in {"print", "println", "println_newline", "write"}
              => scall.pushed = << >>
        /\ scall.op = "getOutput" => scall.ret = << >>

====
